---- MODULE Spec2Model ----
(***************************************************************************)
(* The conversation state machine of the Real Estate Call Assistant        *)
(* (src/core/conversation_analyzer.py), the call handler that owns one     *)
(* analyzer per call (src/backend/websocket/call_handler.py) and the AI    *)
(* suggestion service (src/backend/app/services/openai_service.py).        *)
(***************************************************************************)
EXTENDS Integers, Sequences, FiniteSets, TLC

None == "None"

(***************************************************************************)
(* Text.  A Python str is a sequence of one-character strings.  Utterances *)
(* and keyword tables are written as word lists and spelled out by Str, so *)
(* that `in` and lower() work on characters as they do in Python.          *)
(***************************************************************************)
Spelling ==
    "this" :> <<"t", "h", "i", "s">> @@
    "is" :> <<"i", "s">> @@
    "Mike" :> <<"M", "i", "k", "e">> @@
    "with" :> <<"w", "i", "t", "h">> @@
    "ABC" :> <<"A", "B", "C">> @@
    "Realty" :> <<"R", "e", "a", "l", "t", "y">> @@
    "real" :> <<"r", "e", "a", "l">> @@
    "estate" :> <<"e", "s", "t", "a", "t", "e">> @@
    "yes" :> <<"y", "e", "s">> @@
    "Yes" :> <<"Y", "e", "s">> @@
    "tomorrow" :> <<"t", "o", "m", "o", "r", "r", "o", "w">> @@
    "morning" :> <<"m", "o", "r", "n", "i", "n", "g">> @@
    "works" :> <<"w", "o", "r", "k", "s">> @@
    "afternoon" :> <<"a", "f", "t", "e", "r", "n", "o", "o", "n">> @@
    "what" :> <<"w", "h", "a", "t">> @@
    "time" :> <<"t", "i", "m", "e">> @@
    "sure" :> <<"s", "u", "r", "e">> @@
    "okay" :> <<"o", "k", "a", "y">> @@
    "available" :> <<"a", "v", "a", "i", "l", "a", "b", "l", "e">> @@
    "I" :> <<"I">> @@
    "am" :> <<"a", "m">> @@
    "it" :> <<"i", "t">> @@
    "not" :> <<"n", "o", "t">> @@
    "yesterday" :> <<"y", "e", "s", "t", "e", "r", "d", "a", "y">> @@
    "hello" :> <<"h", "e", "l", "l", "o">> @@
    "the" :> <<"t", "h", "e">> @@
    "north" :> <<"n", "o", "r", "t", "h">> @@
    "side" :> <<"s", "i", "d", "e">> @@
    "I'd" :> <<"I", "'", "d">> @@
    "rather" :> <<"r", "a", "t", "h", "e", "r">> @@
    "talk" :> <<"t", "a", "l", "k">> @@
    "to" :> <<"t", "o">> @@
    "listing" :> <<"l", "i", "s", "t", "i", "n", "g">> @@
    "agent" :> <<"a", "g", "e", "n", "t">> @@
    "seller's" :> <<"s", "e", "l", "l", "e", "r", "'", "s">> @@
    "already" :> <<"a", "l", "r", "e", "a", "d", "y">> @@
    "working" :> <<"w", "o", "r", "k", "i", "n", "g">> @@
    "another" :> <<"a", "n", "o", "t", "h", "e", "r">> @@
    "just" :> <<"j", "u", "s", "t">> @@
    "a" :> <<"a">> @@
    "quick" :> <<"q", "u", "i", "c", "k">> @@
    "question" :> <<"q", "u", "e", "s", "t", "i", "o", "n">> @@
    "wondering" :> <<"w", "o", "n", "d", "e", "r", "i", "n", "g">> @@
    "shows" :> <<"s", "h", "o", "w", "s">> @@
    "pending" :> <<"p", "e", "n", "d", "i", "n", "g">> @@
    "under" :> <<"u", "n", "d", "e", "r">> @@
    "contract" :> <<"c", "o", "n", "t", "r", "a", "c", "t">> @@
    "I'm" :> <<"I", "'", "m">> @@
    "out" :> <<"o", "u", "t">> @@
    "of" :> <<"o", "f">> @@
    "town" :> <<"t", "o", "w", "n">> @@
    "in" :> <<"i", "n">> @@
    "we're" :> <<"w", "e", "'", "r", "e">> @@
    "ready" :> <<"r", "e", "a", "d", "y">> @@
    "too" :> <<"t", "o", "o">> @@
    "soon" :> <<"s", "o", "o", "n">> @@
    "excited" :> <<"e", "x", "c", "i", "t", "e", "d">> @@
    "work" :> <<"w", "o", "r", "k">> @@
    "you" :> <<"y", "o", "u">> @@
    "financing" :> <<"f", "i", "n", "a", "n", "c", "i", "n", "g">> @@
    "and" :> <<"a", "n", "d">> @@
    "credit" :> <<"c", "r", "e", "d", "i", "t">> @@
    "score" :> <<"s", "c", "o", "r", "e">> @@
    "let" :> <<"l", "e", "t">> @@
    "me" :> <<"m", "e">> @@
    "check" :> <<"c", "h", "e", "c", "k">> @@
    "MLS" :> <<"M", "L", "S">> @@
    "would" :> <<"w", "o", "u", "l", "d">> @@
    "like" :> <<"l", "i", "k", "e">> @@
    "see" :> <<"s", "e", "e">> @@
    "sold" :> <<"s", "o", "l", "d">> @@
    "need" :> <<"n", "e", "e", "d">> @@
    "pre-approval" :> <<"p", "r", "e", "-", "a", "p", "p", "r", "o", "v", "a", "l">> @@
    "bad" :> <<"b", "a", "d">> @@
    "condition" :> <<"c", "o", "n", "d", "i", "t", "i", "o", "n">> @@
    "major" :> <<"m", "a", "j", "o", "r">> @@
    "issues" :> <<"i", "s", "s", "u", "e", "s">> @@
    "act" :> <<"a", "c", "t">> @@
    "quickly" :> <<"q", "u", "i", "c", "k", "l", "y">> @@
    "losing" :> <<"l", "o", "s", "i", "n", "g">> @@
    "property" :> <<"p", "r", "o", "p", "e", "r", "t", "y">> @@
    "market" :> <<"m", "a", "r", "k", "e", "t">> @@
    "conditions" :> <<"c", "o", "n", "d", "i", "t", "i", "o", "n", "s">> @@
    "down" :> <<"d", "o", "w", "n">> @@
    "payment" :> <<"p", "a", "y", "m", "e", "n", "t">> @@
    "can't" :> <<"c", "a", "n", "'", "t">> @@
    "do" :> <<"d", "o">> @@
    "that" :> <<"t", "h", "a", "t">> @@
    "but" :> <<"b", "u", "t">> @@
    "at" :> <<"a", "t">> @@
    "realty" :> <<"r", "e", "a", "l", "t", "y">> @@
    "i" :> <<"i">> @@
    "can" :> <<"c", "a", "n">> @@
    "show" :> <<"s", "h", "o", "w">> @@
    "are" :> <<"a", "r", "e">> @@
    "price" :> <<"p", "r", "i", "c", "e">> @@
    "value" :> <<"v", "a", "l", "u", "e">> @@
    "trend" :> <<"t", "r", "e", "n", "d">> @@
    "similar" :> <<"s", "i", "m", "i", "l", "a", "r">> @@
    "median" :> <<"m", "e", "d", "i", "a", "n">> @@
    "comparison" :> <<"c", "o", "m", "p", "a", "r", "i", "s", "o", "n">> @@
    "inventory" :> <<"i", "n", "v", "e", "n", "t", "o", "r", "y">> @@
    "days" :> <<"d", "a", "y", "s">> @@
    "on" :> <<"o", "n">> @@
    "$" :> <<"$">> @@
    "dollar" :> <<"d", "o", "l", "l", "a", "r">> @@
    "%" :> <<"%">> @@
    "percent" :> <<"p", "e", "r", "c", "e", "n", "t">> @@
    "understand" :> <<"u", "n", "d", "e", "r", "s", "t", "a", "n", "d">> @@
    "appreciate" :> <<"a", "p", "p", "r", "e", "c", "i", "a", "t", "e">> @@
    "help" :> <<"h", "e", "l", "p">> @@
    "share" :> <<"s", "h", "a", "r", "e">> @@
    "definitely" :> <<"d", "e", "f", "i", "n", "i", "t", "e", "l", "y">> @@
    "absolutely" :> <<"a", "b", "s", "o", "l", "u", "t", "e", "l", "y">> @@
    "certainly" :> <<"c", "e", "r", "t", "a", "i", "n", "l", "y">> @@
    "great" :> <<"g", "r", "e", "a", "t">> @@
    "opportunity" :> <<"o", "p", "p", "o", "r", "t", "u", "n", "i", "t", "y">> @@
    "unique" :> <<"u", "n", "i", "q", "u", "e">> @@
    "special" :> <<"s", "p", "e", "c", "i", "a", "l">> @@
    "perfect" :> <<"p", "e", "r", "f", "e", "c", "t">> @@
    "ideal" :> <<"i", "d", "e", "a", "l">> @@
    "exclusive" :> <<"e", "x", "c", "l", "u", "s", "i", "v", "e">> @@
    "fast" :> <<"f", "a", "s", "t">> @@
    "won't" :> <<"w", "o", "n", "'", "t">> @@
    "last" :> <<"l", "a", "s", "t">> @@
    "competitive" :> <<"c", "o", "m", "p", "e", "t", "i", "t", "i", "v", "e">> @@
    "multiple" :> <<"m", "u", "l", "t", "i", "p", "l", "e">> @@
    "today" :> <<"t", "o", "d", "a", "y">> @@
    "now" :> <<"n", "o", "w">> @@
    "advantage" :> <<"a", "d", "v", "a", "n", "t", "a", "g", "e">> @@
    "favorable" :> <<"f", "a", "v", "o", "r", "a", "b", "l", "e">> @@
    "potential" :> <<"p", "o", "t", "e", "n", "t", "i", "a", "l">> @@
    "negotiate" :> <<"n", "e", "g", "o", "t", "i", "a", "t", "e">> @@
    "?" :> <<"?">> @@
    "could" :> <<"c", "o", "u", "l", "d">> @@
    "if" :> <<"i", "f">> @@
    "how" :> <<"h", "o", "w">> @@
    "about" :> <<"a", "b", "o", "u", "t">> @@
    "tell" :> <<"t", "e", "l", "l">> @@
    "hear" :> <<"h", "e", "a", "r">> @@
    "interesting" :> <<"i", "n", "t", "e", "r", "e", "s", "t", "i", "n", "g">> @@
    "worth" :> <<"w", "o", "r", "t", "h">> @@
    "investment" :> <<"i", "n", "v", "e", "s", "t", "m", "e", "n", "t">> @@
    "comparable" :> <<"c", "o", "m", "p", "a", "r", "a", "b", "l", "e">> @@
    "guide" :> <<"g", "u", "i", "d", "e">> @@
    "information" :> <<"i", "n", "f", "o", "r", "m", "a", "t", "i", "o", "n">> @@
    "explore" :> <<"e", "x", "p", "l", "o", "r", "e">> @@
    "options" :> <<"o", "p", "t", "i", "o", "n", "s">> @@
    "process" :> <<"p", "r", "o", "c", "e", "s", "s">> @@
    "when" :> <<"w", "h", "e", "n">> @@
    "timeline" :> <<"t", "i", "m", "e", "l", "i", "n", "e">> @@
    "flexible" :> <<"f", "l", "e", "x", "i", "b", "l", "e">> @@
    "assist" :> <<"a", "s", "s", "i", "s", "t">> @@
    "coordinate" :> <<"c", "o", "o", "r", "d", "i", "n", "a", "t", "e">> @@
    "strategy" :> <<"s", "t", "r", "a", "t", "e", "g", "y">> @@
    "handle" :> <<"h", "a", "n", "d", "l", "e">> @@
    "plan" :> <<"p", "l", "a", "n">> @@
    "area" :> <<"a", "r", "e", "a">> @@
    "neighborhood" :> <<"n", "e", "i", "g", "h", "b", "o", "r", "h", "o", "o", "d">> @@
    "community" :> <<"c", "o", "m", "m", "u", "n", "i", "t", "y">> @@
    "convenient" :> <<"c", "o", "n", "v", "e", "n", "i", "e", "n", "t">> @@
    "located" :> <<"l", "o", "c", "a", "t", "e", "d">> @@
    "schedule" :> <<"s", "c", "h", "e", "d", "u", "l", "e">> @@
    "tour" :> <<"t", "o", "u", "r">> @@
    "visit" :> <<"v", "i", "s", "i", "t">> @@
    "Would" :> <<"W", "o", "u", "l", "d">> @@
    "tour?" :> <<"t", "o", "u", "r", "?">> @@
    "The" :> <<"T", "h", "e">> @@
    "up" :> <<"u", "p">> @@
    "5%" :> <<"5", "%">> @@
    "your" :> <<"y", "o", "u", "r">> @@
    "What" :> <<"W", "h", "a", "t">> @@
    "be" :> <<"b", "e">> @@
    "happy" :> <<"h", "a", "p", "p", "y">> @@
    "because" :> <<"b", "e", "c", "a", "u", "s", "e">> @@
    "we" :> <<"w", "e">> @@
    "more" :> <<"m", "o", "r", "e">> @@
    "space" :> <<"s", "p", "a", "c", "e">> @@
    "looking" :> <<"l", "o", "o", "k", "i", "n", "g">> @@
    "for" :> <<"f", "o", "r">> @@
    "home" :> <<"h", "o", "m", "e">> @@
    "location" :> <<"l", "o", "c", "a", "t", "i", "o", "n">> @@
    "other" :> <<"o", "t", "h", "e", "r">> @@
    "properties" :> <<"p", "r", "o", "p", "e", "r", "t", "i", "e", "s">> @@
    "interested" :> <<"i", "n", "t", "e", "r", "e", "s", "t", "e", "d">> @@
    "want" :> <<"w", "a", "n", "t">>


UpperAlpha ==
    <<"A", "B", "C", "D", "E", "F", "G", "H", "I", "J", "K", "L", "M",
      "N", "O", "P", "Q", "R", "S", "T", "U", "V", "W", "X", "Y", "Z">>

LowerAlpha ==
    <<"a", "b", "c", "d", "e", "f", "g", "h", "i", "j", "k", "l", "m",
      "n", "o", "p", "q", "r", "s", "t", "u", "v", "w", "x", "y", "z">>

\* str.lower() on one character
lower_char(c) ==
    IF \E k \in 1..26 : UpperAlpha[k] = c
    THEN LowerAlpha[CHOOSE k \in 1..26 : UpperAlpha[k] = c]
    ELSE c

\* str.lower()
lower(s) == [i \in 1..Len(s) |-> lower_char(s[i])]

\* the str spelled by a list of words, single spaces between them
RECURSIVE Str(_)
Str(ws) ==
    IF ws = <<>> THEN <<>>
    ELSE Spelling[ws[1]] \o (IF Len(ws) = 1 THEN <<>> ELSE <<" ">>) \o Str(Tail(ws))

\* Python's `p in s` on two strs: p is a substring of s
In(p, s) == \E i \in 1..(Len(s) - Len(p) + 1) : SubSeq(s, i, i + Len(p) - 1) = p

(***************************************************************************)
(* conversation_templates.py.  The scripts are long; a handler or template *)
(* is kept as its opening words, which tell the entries apart.             *)
(***************************************************************************)
OBJECTION_HANDLERS ==
    [listing_agent |->
        [steamroll |-> [template |-> "The listing agent for this property is a colleague of mine ..."],
         education |-> [template |-> "I understand and just want to make sure you're taken care of ..."]],
     working_with_agent |->
        [template |-> "I completely understand! I am free to show you this property ..."],
     quick_question |->
        [template |-> "Absolutely, I will be happy to help! ...",
         follow_up |-> "Perfect! I will get that information for you ..."],
     pending_property |->
        [template |-> "I do see that as well. Many sellers will still entertain back up offers ..."],
     out_of_town |->
        [template |-> "I understand, and that won't be a problem ..."],
     not_ready |->
        [template |-> "I completely understand! I would be happy to represent you ..."]]

ALM_QUESTIONS ==
    [appointment |->
        <<"When would you like to go see the property?",
          "Are you available tomorrow morning for a tour?",
          "Would you prefer an in-person showing or a virtual tour?",
          "What time works best for you to view the property?">>,
     location |->
        <<"Are there any other properties you've been looking at?",
          "Are you only interested in this area, or are you open to seeing alternative locations and neighborhoods?",
          "What other neighborhoods are you considering?",
          "How far from this location would you be willing to look?">>,
     motivation |->
        <<"What interests you about this property?",
          "How long have you been looking?",
          "Have you seen any other properties?",
          "What features are most important to you in a home?",
          "Are you currently renting or owning?",
          "Will you need to sell a home as well?">>]

CLOSING_TEMPLATES ==
    [appointment_set |->
        [template |-> "Thank you for taking the time to go over your home search needs! ..."],
     nurture_lead |->
        [template |-> "Thank you for taking the time to speak with me today! ..."]]

AVOID_PHRASES ==
    << Str(<<"not", "available">>),
       Str(<<"already", "sold">>),
       Str(<<"need", "pre-approval">>),
       Str(<<"bad", "condition">>),
       Str(<<"major", "issues">>),
       Str(<<"act", "quickly">>),
       Str(<<"losing", "the", "property">>),
       Str(<<"market", "conditions">>),
       Str(<<"financing">>),
       Str(<<"credit", "score">>),
       Str(<<"down", "payment">>),
       Str(<<"let", "me", "check", "the", "MLS">>),
       Str(<<"I'm", "not", "available">>),
       Str(<<"can't", "do", "that", "time">>) >>

(***************************************************************************)
(* The utterances a session is driven with: the scenarios of the tests and *)
(* of the specification, and texts around each keyword table.              *)
(***************************************************************************)
Utterances ==
    { Str(ws) : ws \in {
        <<"this", "is", "Mike", "with", "ABC", "Realty">>,
        <<"this", "is", "Mike">>,
        <<"this", "is", "real", "estate">>,
        <<"Yes", "tomorrow", "morning", "works">>,
        <<"yes">>, <<"sure">>, <<"okay">>, <<"tomorrow">>,
        <<"I", "am", "available">>,
        <<"morning">>, <<"afternoon">>, <<"what", "time">>,
        <<"hello">>,
        <<"I'd", "rather", "talk", "to", "the", "listing", "agent">>,
        <<"I'm", "already", "working", "with", "another", "agent">>,
        <<"already", "working", "with", "you">>,
        <<"just", "a", "quick", "question">>,
        <<"it", "shows", "pending">>,
        <<"I'm", "out", "of", "town">>,
        <<"we're", "not", "ready">>,
        <<"this", "is", "the", "listing", "agent", "at", "ABC", "Realty">>,
        <<"I'm", "excited", "to", "work", "with", "you">>,
        <<"it", "is", "not", "available">>,
        <<"financing", "and", "credit", "score">>,
        <<"let", "me", "check", "the", "MLS">> } }

Speakers == {"agent", "client"}

(***************************************************************************)
(* conversation_analyzer.py                                                *)
(***************************************************************************)
ConversationStage ==
    {"opening", "appointment", "location", "motivation", "objection_handling", "closing"}

ObjectionType ==
    {"listing_agent", "working_with_agent", "quick_question",
     "pending_property", "out_of_town", "not_ready"}

\* ConversationState(stage=...): the dataclass with its defaults
ConversationState(stage) ==
    [stage |-> stage,
     appointment_set |-> FALSE,
     location_discussed |-> FALSE,
     motivation_uncovered |-> FALSE,
     objections_handled |-> <<>>,
     last_speaker |-> None]

\* ConversationAnalyzer(): the fields __init__ sets
ConversationAnalyzer ==
    [state |-> ConversationState("opening"),
     detected_objections |-> {}]

\* one warning per avoid phrase found, in the table's order
_check_avoid_phrases(text) ==
    LET RECURSIVE collect(_)
        collect(phrases) ==
            IF phrases = <<>> THEN <<>>
            ELSE (IF In(Head(phrases), lower(text))
                  THEN << <<"Avoid mentioning", Head(phrases), "during the first call">> >>
                  ELSE <<>>) \o collect(Tail(phrases))
    IN  collect(AVOID_PHRASES)

_detect_objection(text0) ==
    LET text == lower(text0) IN
    IF In(Str(<<"listing", "agent">>), text) \/ In(Str(<<"seller's", "agent">>), text)
        THEN "listing_agent"
    ELSE IF In(Str(<<"working", "with">>), text) /\ In(Str(<<"agent">>), text)
        THEN "working_with_agent"
    ELSE IF In(Str(<<"quick", "question">>), text) \/ In(Str(<<"just", "wondering">>), text)
        THEN "quick_question"
    ELSE IF In(Str(<<"pending">>), text) \/ In(Str(<<"under", "contract">>), text)
        THEN "pending_property"
    ELSE IF In(Str(<<"out", "of", "town">>), text) \/ In(Str(<<"not", "in", "town">>), text)
        THEN "out_of_town"
    ELSE IF In(Str(<<"not", "ready">>), text) \/ In(Str(<<"too", "soon">>), text)
        THEN "not_ready"
    ELSE None

\* _handle_opening_stage: the agent has properly introduced themselves
ProperlyIntroduced(text) ==
    In(Str(<<"this", "is">>), text)
    /\ (In(Str(<<"realty">>), text) \/ In(Str(<<"real", "estate">>), text))

\* mutant: the commitment keywords of ALMManager._check_appointment_commitment
AppointmentIndicators_alm_manager ==
    {Str(<<"yes">>), Str(<<"sure">>), Str(<<"okay">>), Str(<<"tomorrow">>),
     Str(<<"morning">>), Str(<<"afternoon">>), Str(<<"time">>)}

\* _handle_appointment_stage: the positive appointment indicators
AppointmentIndicators ==
    {Str(<<"yes">>), Str(<<"sure">>), Str(<<"okay">>), Str(<<"tomorrow">>), Str(<<"available">>)}

PositiveIndicator(text) ==
    \E phrase \in AppointmentIndicators : In(phrase, lower(text))

\* _handle_closing_stage: the agent ended positively
EndedPositively(text) ==
    In(Str(<<"excited", "to", "work", "with", "you">>), lower(text))

\* analyze_speech lowers the text it is given and hands the lowered text to
\* the scans above.  Scan holds, per utterance, the lowered text and what
\* each scan finds in it, computed once.
Scan ==
    [text0 \in Utterances |->
        LET text == lower(text0) IN
        [lower      |-> text,
         warnings   |-> _check_avoid_phrases(text),
         objection  |-> _detect_objection(text),
         introduced |-> ProperlyIntroduced(text),
         positive   |-> PositiveIndicator(text),
         excited    |-> EndedPositively(text)]]

\* mutant: the speaker is not looked at
_handle_opening_stage_any_speaker(state, text, speaker) ==
    IF text.introduced
    THEN [state |-> [state EXCEPT !.stage = "appointment"],
          ret |-> [suggestion_type |-> "alm_question",
                   suggestion |-> ALM_QUESTIONS.appointment[1],
                   next_stage |-> "appointment"]]
    ELSE [state |-> state,
          ret |-> [suggestion_type |-> "opening",
                   suggestion |-> "Remember to introduce yourself and your brokerage"]]

\* Each stage handler yields the state it leaves and the dict it returns;
\* its `text` is the Scan entry of the utterance.
_handle_opening_stage(state, text, speaker) ==
    IF speaker = "agent" /\ text.introduced
    THEN [state |-> [state EXCEPT !.stage = "appointment"],
          ret |-> [suggestion_type |-> "alm_question",
                   suggestion |-> ALM_QUESTIONS.appointment[1],
                   next_stage |-> "appointment"]]
    ELSE [state |-> state,
          ret |-> [suggestion_type |-> "opening",
                   suggestion |-> "Remember to introduce yourself and your brokerage"]]

\* mutant: the stage moves on and appointment_set is left as it was
_handle_appointment_stage_flag_unset(state, text, speaker) ==
    IF speaker = "client" /\ text.positive
    THEN [state |-> [state EXCEPT !.stage = "location"],
          ret |-> [suggestion_type |-> "alm_question",
                   suggestion |-> ALM_QUESTIONS.location[1],
                   next_stage |-> "location"]]
    ELSE [state |-> state,
          ret |-> [suggestion_type |-> "appointment",
                   suggestion |-> <<"Focus on securing the appointment. Try: ",
                                    ALM_QUESTIONS.appointment[1]>>]]

_handle_appointment_stage(state, text, speaker) ==
    IF speaker = "client" /\ text.positive
    THEN [state |-> [state EXCEPT !.appointment_set = TRUE, !.stage = "location"],
          ret |-> [suggestion_type |-> "alm_question",
                   suggestion |-> ALM_QUESTIONS.location[1],
                   next_stage |-> "location"]]
    ELSE [state |-> state,
          ret |-> [suggestion_type |-> "appointment",
                   suggestion |-> <<"Focus on securing the appointment. Try: ",
                                    ALM_QUESTIONS.appointment[1]>>]]

\* mutant: the agent's turn counts as the location discussed
_handle_location_stage_any_speaker(state, text, speaker) ==
    IF speaker = "client"
    THEN [state |-> [state EXCEPT !.location_discussed = TRUE, !.stage = "motivation"],
          ret |-> [suggestion_type |-> "alm_question",
                   suggestion |-> ALM_QUESTIONS.motivation[1],
                   next_stage |-> "motivation"]]
    ELSE [state |-> [state EXCEPT !.location_discussed = TRUE],
          ret |-> [suggestion_type |-> "location",
                   suggestion |-> <<"Ask about other areas they're interested in: ",
                                    ALM_QUESTIONS.location[2]>>]]

\* mutant: the stage moves on with a fresh ConversationState
_handle_location_stage_fresh_state(state, text, speaker) ==
    IF speaker = "client"
    THEN [state |-> [ConversationState("motivation") EXCEPT
                        !.location_discussed = TRUE,
                        !.last_speaker = state.last_speaker],
          ret |-> [suggestion_type |-> "alm_question",
                   suggestion |-> ALM_QUESTIONS.motivation[1],
                   next_stage |-> "motivation"]]
    ELSE [state |-> state,
          ret |-> [suggestion_type |-> "location",
                   suggestion |-> <<"Ask about other areas they're interested in: ",
                                    ALM_QUESTIONS.location[2]>>]]

_handle_location_stage(state, text, speaker) ==
    IF speaker = "client"
    THEN [state |-> [state EXCEPT !.location_discussed = TRUE, !.stage = "motivation"],
          ret |-> [suggestion_type |-> "alm_question",
                   suggestion |-> ALM_QUESTIONS.motivation[1],
                   next_stage |-> "motivation"]]
    ELSE [state |-> state,
          ret |-> [suggestion_type |-> "location",
                   suggestion |-> <<"Ask about other areas they're interested in: ",
                                    ALM_QUESTIONS.location[2]>>]]

\* mutant: the client's answer must name a motivation, as
\* ALMManager._check_motivation_discussion asks
_handle_motivation_stage_keyword_gate(state, text, speaker) ==
    IF speaker = "client" /\ In(Str(<<"need">>), text.lower)
    THEN LET st == [state EXCEPT !.motivation_uncovered = TRUE, !.stage = "closing"] IN
         [state |-> st,
          ret |-> [suggestion_type |-> "closing",
                   suggestion |-> (IF st.appointment_set
                                   THEN CLOSING_TEMPLATES.appointment_set.template
                                   ELSE CLOSING_TEMPLATES.nurture_lead.template),
                   next_stage |-> "closing"]]
    ELSE [state |-> state,
          ret |-> [suggestion_type |-> "motivation",
                   suggestion |-> <<"Uncover their motivation: ",
                                    ALM_QUESTIONS.motivation[1]>>]]

_handle_motivation_stage(state, text, speaker) ==
    IF speaker = "client"
    THEN LET st == [state EXCEPT !.motivation_uncovered = TRUE, !.stage = "closing"] IN
         [state |-> st,
          ret |-> [suggestion_type |-> "closing",
                   suggestion |-> (IF st.appointment_set
                                   THEN CLOSING_TEMPLATES.appointment_set.template
                                   ELSE CLOSING_TEMPLATES.nurture_lead.template),
                   next_stage |-> "closing"]]
    ELSE [state |-> state,
          ret |-> [suggestion_type |-> "motivation",
                   suggestion |-> <<"Uncover their motivation: ",
                                    ALM_QUESTIONS.motivation[1]>>]]

\* mutant: a call that ended positively starts the framework over
_handle_closing_stage_restarts(state, text, speaker) ==
    IF speaker = "agent" /\ text.excited
    THEN [state |-> [state EXCEPT !.stage = "opening"],
          ret |-> [suggestion_type |-> "end_call",
                   suggestion |-> "Great job! You've completed the ALM framework and ended positively."]]
    ELSE [state |-> state,
          ret |-> [suggestion_type |-> "closing",
                   suggestion |-> "Remember to end with 'I'm excited to work with you!'"]]

_handle_closing_stage(state, text, speaker) ==
    IF speaker = "agent" /\ text.excited
    THEN [state |-> state,
          ret |-> [suggestion_type |-> "end_call",
                   suggestion |-> "Great job! You've completed the ALM framework and ended positively."]]
    ELSE [state |-> state,
          ret |-> [suggestion_type |-> "closing",
                   suggestion |-> "Remember to end with 'I'm excited to work with you!'"]]

\* mutant: the interrupt overwrites the stage
ObjectionDetected_overwrites_stage(self, objection, warnings) ==
    [self |-> [self EXCEPT !.detected_objections = @ \cup {objection},
                           !.state.stage = "objection_handling"],
     ret |-> [suggestion_type |-> "objection_handler",
              suggestion |-> OBJECTION_HANDLERS[objection],
              warnings |-> warnings]]

\* mutant: one handler is returned for every objection type
ObjectionDetected_one_handler(self, objection, warnings) ==
    [self |-> [self EXCEPT !.detected_objections = @ \cup {objection}],
     ret |-> [suggestion_type |-> "objection_handler",
              suggestion |-> OBJECTION_HANDLERS.working_with_agent,
              warnings |-> warnings]]

\* mutant: the set keeps the latest objection only
ObjectionDetected_keeps_latest(self, objection, warnings) ==
    [self |-> [self EXCEPT !.detected_objections = {objection}],
     ret |-> [suggestion_type |-> "objection_handler",
              suggestion |-> OBJECTION_HANDLERS[objection],
              warnings |-> warnings]]

\* analyze_speech, `if objection:` -- the objection is recorded and its
\* handler returned at once; no stage handler runs.
ObjectionDetected(self, objection, warnings) ==
    [self |-> [self EXCEPT !.detected_objections = @ \cup {objection}],
     ret |-> [suggestion_type |-> "objection_handler",
              suggestion |-> OBJECTION_HANDLERS[objection],
              warnings |-> warnings]]

\* analyze_speech from its second statement on, `text` being the Scan entry
\* of the utterance: the analyzer it leaves and the dict it returns.
AnalyzeScanned(self, text, speaker) ==
    LET state1    == [self.state EXCEPT !.last_speaker = speaker]
        warnings  == text.warnings
        objection == text.objection
        staged(h) == [self |-> [self EXCEPT !.state = h.state], ret |-> h.ret]
    IN
    IF objection # None
    THEN ObjectionDetected([self EXCEPT !.state = state1], objection, warnings)
    ELSE IF state1.stage = "opening"
        THEN staged(_handle_opening_stage(state1, text, speaker))
    ELSE IF state1.stage = "appointment"
        THEN staged(_handle_appointment_stage(state1, text, speaker))
    ELSE IF state1.stage = "location"
        THEN staged(_handle_location_stage(state1, text, speaker))
    ELSE IF state1.stage = "motivation"
        THEN staged(_handle_motivation_stage(state1, text, speaker))
    ELSE IF state1.stage = "closing"
        THEN staged(_handle_closing_stage(state1, text, speaker))
    ELSE [self |-> [self EXCEPT !.state = state1],
          ret |-> [suggestion_type |-> "general", warnings |-> warnings]]

\* analyze_speech(text, speaker) on the analyzer `self`
AnalyzeSpeech(self, text0, speaker) == AnalyzeScanned(self, Scan[text0], speaker)

(***************************************************************************)
(* The state of the program                                                *)
(***************************************************************************)
VARIABLES
    state,                \* ConversationAnalyzer.state
    detected_objections,  \* ConversationAnalyzer.detected_objections
    arg,                  \* the arguments of the latest analyze_speech call
    ret,                  \* the dict that call returned
    active_calls,         \* CallHandler.active_calls
    op,                   \* the latest CallHandler operation and how it ended
    requests,             \* SuggestionRequest._rate_limiter.requests
    now,                  \* time.time()
    call,                 \* the latest AIService.generate_suggestions call
    optimized,            \* the latest SuggestionOptimizer.optimize_suggestions call
    pooled,               \* the suggestions SuggestionGenerator pooled and ranked
    tracked,              \* the latest ALMTracker.analyze_conversation call
    asked,                \* the latest get_next_question call
    standardized,         \* the latest ALMTracker._standardize_money call
    active_connections,   \* ConnectionManager.active_connections
    conversation_history, \* conversation_history of main.py
    suggestion_generator, \* the SuggestionGenerator of the services
    endpoints,            \* the websocket_endpoint coroutines started
    background,           \* the process_speech tasks added, in the order added
    sent,                 \* the messages send_message sent, in the order sent
    analyzed,             \* the latest ALMManager.analyze_response call
    connection_objects,   \* the Connection objects made by ConnectionManager.connect
    manager_connections,  \* ConnectionManager.active_connections of app/core
    queue_tasks,          \* the _process_message_queue tasks created
    accepted,             \* the messages send_message queued, in the order queued
    written,              \* the messages each websocket was given, in that order
    analyzed_conversation \* the latest AIService.analyze_conversation call

analyzerVars == <<state, detected_objections, arg, ret>>
callVars == <<active_calls, op>>
aiVars == <<requests, now, call>>
optimizerVars == <<optimized>>
generatorVars == <<pooled>>
almVars == <<tracked, asked, standardized>>
serviceVars == <<active_connections, conversation_history, suggestion_generator,
                 endpoints, background, sent>>
managerVars == <<analyzed>>
connectionVars == <<connection_objects, manager_connections, queue_tasks, accepted, written>>
analysisVars == <<analyzed_conversation>>
vars == <<analyzerVars, callVars, aiVars, optimizerVars, generatorVars, almVars,
          serviceVars, managerVars, connectionVars, analysisVars>>

\* what the operations of one object leave alone
analyzerFrame ==
    <<callVars, aiVars, optimizerVars, generatorVars, almVars, serviceVars,
      managerVars, connectionVars, analysisVars>>
callFrame ==
    <<analyzerVars, aiVars, optimizerVars, generatorVars, almVars, serviceVars,
      managerVars, connectionVars, analysisVars>>
aiFrame ==
    <<analyzerVars, callVars, optimizerVars, generatorVars, almVars, serviceVars,
      managerVars, connectionVars, analysisVars>>
optimizerFrame ==
    <<analyzerVars, callVars, aiVars, generatorVars, almVars, serviceVars,
      managerVars, connectionVars, analysisVars>>
generatorFrame ==
    <<analyzerVars, callVars, aiVars, optimizerVars, almVars, serviceVars,
      managerVars, connectionVars, analysisVars>>
almFrame ==
    <<analyzerVars, callVars, aiVars, optimizerVars, generatorVars, serviceVars,
      managerVars, connectionVars, analysisVars>>
serviceFrame ==
    <<analyzerVars, callVars, aiVars, optimizerVars, generatorVars, almVars,
      managerVars, connectionVars, analysisVars>>
managerFrame ==
    <<analyzerVars, callVars, aiVars, optimizerVars, generatorVars, almVars,
      serviceVars, connectionVars, analysisVars>>
connectionFrame ==
    <<analyzerVars, callVars, aiVars, optimizerVars, generatorVars, almVars,
      serviceVars, managerVars, analysisVars>>
analysisFrame ==
    <<analyzerVars, callVars, aiVars, optimizerVars, generatorVars, almVars,
      serviceVars, managerVars, connectionVars>>

\* before the first call: no arguments, nothing returned
NoCall == [text |-> <<>>, speaker |-> None]
NoDict == [suggestion_type |-> None]

InitAnalyzer ==
    /\ state = ConversationAnalyzer.state
    /\ detected_objections = ConversationAnalyzer.detected_objections
    /\ arg = NoCall
    /\ ret = NoDict

\* ConversationAnalyzer.analyze_speech(text, speaker)
analyze_speech(text, speaker) ==
    LET r == AnalyzeSpeech([state |-> state, detected_objections |-> detected_objections],
                           text, speaker)
    IN  /\ state' = r.self.state
        /\ detected_objections' = r.self.detected_objections
        /\ arg' = [text |-> text, speaker |-> speaker]
        /\ ret' = r.ret
        /\ UNCHANGED analyzerFrame

NextAnalyzer ==
    \E text \in Utterances, speaker \in Speakers : analyze_speech(text, speaker)

(***************************************************************************)
(* backend/websocket/call_handler.py                                       *)
(***************************************************************************)
CallIds == {"call-1", "call-2"}

\* the WebSocket objects of the connections
WebSockets == {"ws-1", "ws-2"}

\* the transcripts the speech processor hands to _handle_transcript
Transcripts ==
    { Str(ws) : ws \in {
        <<"this", "is", "Mike", "with", "ABC", "Realty">>,
        <<"yes">>,
        <<"hello">>,
        <<"just", "a", "quick", "question">>,
        <<"I'm", "excited", "to", "work", "with", "you">> } }

\* the confidence of a transcript, in hundredths
Confidences == {60, 95}

\* last_transcript = None: a str is a sequence of characters, None is not one
NoText == <<None>>

\* nothing was sent
NoMessage == [type |-> None]

agent_phrases ==
    << Str(<<"this", "is">>),
       Str(<<"with", "realty">>),
       Str(<<"would", "you", "like", "to", "see">>),
       Str(<<"i", "can", "show", "you">>),
       Str(<<"are", "you", "available">>),
       Str(<<"excited", "to", "work", "with", "you">>) >>

_detect_speaker(text) ==
    IF \E i \in DOMAIN agent_phrases : In(agent_phrases[i], lower(text))
    THEN "agent"
    ELSE "client"

\* _detect_speaker of each transcript, computed once
DetectedSpeaker == [text \in Transcripts |-> _detect_speaker(text)]

\* ConversationAnalyzer.get_alm_progress
get_alm_progress(self) ==
    [appointment |-> self.state.appointment_set,
     location |-> self.state.location_discussed,
     motivation |-> self.state.motivation_uncovered,
     objections_handled |-> self.state.objections_handled]

\* the entry connect() stores for a call
NewCall(websocket) ==
    [websocket |-> websocket,
     analyzer |-> ConversationAnalyzer,
     last_transcript |-> NoText,
     is_processing |-> FALSE]

\* `del self.active_calls[call_id]`
Deleted(calls, call_id) == [c \in DOMAIN calls \ {call_id} |-> calls[c]]

\* every call is given the entry
Stored_in_every_call(calls, call_id, entry) ==
    [c \in DOMAIN calls \cup {call_id} |-> entry]

\* `self.active_calls[call_id] = entry`
Stored(calls, call_id, entry) ==
    [c \in DOMAIN calls \cup {call_id} |-> IF c = call_id THEN entry ELSE calls[c]]

\* the JSON _send_state sends
StateMessage(entry) ==
    [type |-> "state",
     data |-> [stage |-> entry.analyzer.state.stage,
               progress |-> get_alm_progress(entry.analyzer),
               last_transcript |-> entry.last_transcript]]

\* the dict _handle_transcript builds for _send_update.  analysis['stage']
\* is a subscript: it raises KeyError when the key is missing.
UpdateMessage(text, confidence, speaker, analysis) ==
    IF "stage" \in DOMAIN analysis
    THEN [raised |-> None,
          data |-> [transcript |-> text,
                    confidence |-> confidence,
                    speaker |-> speaker,
                    suggestions |-> IF "suggestion" \in DOMAIN analysis
                                    THEN analysis.suggestion ELSE "",
                    warnings |-> IF "warnings" \in DOMAIN analysis
                                 THEN analysis.warnings ELSE <<>>,
                    stage |-> analysis.stage]]
    ELSE [raised |-> "KeyError", data |-> NoMessage]

NoOp == [name |-> None, call_id |-> None, text |-> NoText,
         sent |-> NoMessage, raised |-> None]

\* CallHandler.__init__: `self.active_calls = {}`
NoCalls == [c \in {} |-> NewCall(None)]

InitCall ==
    /\ active_calls = NoCalls
    /\ op = NoOp

\* CallHandler.connect(websocket, call_id).  `delivered`: send_json returned;
\* otherwise it raised and _send_state disconnects the call.
connect(websocket, call_id, delivered) ==
    /\ \A c \in DOMAIN active_calls : active_calls[c].websocket # websocket
    /\ LET entry == NewCall(websocket)
           calls == Stored(active_calls, call_id, entry)
       IN  /\ active_calls' = IF delivered THEN calls ELSE Deleted(calls, call_id)
           /\ op' = [name |-> "connect", call_id |-> call_id, text |-> NoText,
                     sent |-> IF delivered THEN StateMessage(entry) ELSE NoMessage,
                     raised |-> None]
    /\ UNCHANGED callFrame

\* CallHandler.disconnect(call_id)
disconnect(call_id) ==
    /\ active_calls' = IF call_id \in DOMAIN active_calls
                       THEN Deleted(active_calls, call_id)
                       ELSE active_calls
    /\ op' = [name |-> "disconnect", call_id |-> call_id, text |-> NoText,
              sent |-> NoMessage, raised |-> None]
    /\ UNCHANGED callFrame

\* the methods of RealTimeProcessor
RealTimeProcessor ==
    {"__init__", "_setup_logging", "start_processing", "stop_processing",
     "_capture_audio", "_process_audio_queue"}

\* CallHandler.process_audio(call_id, audio_data), the audio holding the
\* utterance `text`.  An attribute RealTimeProcessor does not have raises
\* AttributeError before the callback is handed over; the except clause
\* logs it and the finally clause clears is_processing.
process_audio(call_id, text) ==
    /\ IF call_id \notin DOMAIN active_calls
       THEN /\ active_calls' = active_calls
            /\ op' = [name |-> "process_audio", call_id |-> call_id, text |-> text,
                      sent |-> NoMessage, raised |-> None]
       ELSE IF active_calls[call_id].is_processing
       THEN /\ active_calls' = active_calls
            /\ op' = [name |-> "process_audio", call_id |-> call_id, text |-> text,
                      sent |-> NoMessage, raised |-> None]
       ELSE /\ active_calls' = [active_calls EXCEPT ![call_id].is_processing = FALSE]
            /\ op' = [name |-> "process_audio", call_id |-> call_id, text |-> text,
                      sent |-> NoMessage,
                      raised |-> IF "process_audio_chunk" \in RealTimeProcessor
                                 THEN None ELSE "AttributeError"]
    /\ UNCHANGED callFrame

\* CallHandler._handle_transcript(call_id, text, confidence)
_handle_transcript(call_id, text, confidence, delivered) ==
    /\ IF call_id \notin DOMAIN active_calls
       THEN /\ active_calls' = active_calls
            /\ op' = [name |-> "_handle_transcript", call_id |-> call_id, text |-> text,
                      sent |-> NoMessage, raised |-> None]
       ELSE IF active_calls[call_id].last_transcript = text
       THEN /\ active_calls' = active_calls
            /\ op' = [name |-> "_handle_transcript", call_id |-> call_id, text |-> text,
                      sent |-> NoMessage, raised |-> None]
       ELSE LET entry == active_calls[call_id]
                speaker == DetectedSpeaker[text]
                r == AnalyzeSpeech(entry.analyzer, text, speaker)
                update == UpdateMessage(text, confidence, speaker, r.ret)
                calls == Stored(active_calls, call_id,
                                [entry EXCEPT !.last_transcript = text,
                                              !.analyzer = r.self])
            IN  IF update.raised # None
                THEN /\ active_calls' = calls
                     /\ op' = [name |-> "_handle_transcript", call_id |-> call_id,
                               text |-> text, sent |-> NoMessage,
                               raised |-> update.raised]
                ELSE /\ active_calls' = IF delivered THEN calls
                                        ELSE Deleted(calls, call_id)
                     /\ op' = [name |-> "_handle_transcript", call_id |-> call_id,
                               text |-> text,
                               sent |-> IF delivered THEN update.data ELSE NoMessage,
                               raised |-> None]
    /\ UNCHANGED callFrame

NextCall ==
    \/ \E websocket \in WebSockets, call_id \in CallIds, delivered \in BOOLEAN :
            connect(websocket, call_id, delivered)
    \/ \E call_id \in CallIds : disconnect(call_id)
    \/ \E call_id \in CallIds, text \in Transcripts,
          confidence \in Confidences, delivered \in BOOLEAN :
            _handle_transcript(call_id, text, confidence, delivered)
    \/ \E call_id \in CallIds, text \in Transcripts : process_audio(call_id, text)

(***************************************************************************)
(* backend/app/errors.py                                                   *)
(***************************************************************************)
\* each exception class and its base class
ErrorBases ==
    [AIAssistantError          |-> "Exception",
     OpenAIServiceError        |-> "AIAssistantError",
     TranscriptionError        |-> "OpenAIServiceError",
     SuggestionGenerationError |-> "OpenAIServiceError",
     ConversationAnalysisError |-> "OpenAIServiceError",
     AudioProcessingError      |-> "AIAssistantError",
     ValidationError           |-> "AIAssistantError",
     NameError                 |-> "Exception",
     AttributeError            |-> "Exception",
     TimeoutError              |-> "Exception",
     OpenAIError               |-> "Exception",
     RetryError                |-> "Exception"]

RECURSIVE issubclass(_, _)
issubclass(cls, base) ==
    \/ cls = base
    \/ cls \in DOMAIN ErrorBases /\ issubclass(ErrorBases[cls], base)

(***************************************************************************)
(* backend/app/services/openai_service.py                                  *)
(***************************************************************************)
\* the names `from ..errors import (...)` binds in the module
ImportedFromErrors ==
    {"check_environment_variables", "handle_openai_error", "handle_validation_error",
     "TranscriptionError", "SuggestionGenerationError", "ConversationAnalysisError"}

\* evaluating the name of an exception class in the module: the class, or
\* NameError when the module does not bind the name
Name(cls) == IF cls \in ImportedFromErrors THEN cls ELSE "NameError"

\* `except <cls>: raise` met by the exception e: what leaves the clause.
\* The class name is evaluated first; None: the clause does not match.
except_reraise(cls, e) ==
    IF Name(cls) = "NameError" THEN "NameError"
    ELSE IF issubclass(e, cls) THEN e
    ELSE None

\* RateLimiter(max_requests=100, time_window=60), scaled down
MaxRequests == 2
TimeWindow == 3

\* the clock stops here
MaxTime == 5

\* wait_exponential(multiplier=1, min=4, max=10), scaled down: the sleep
\* between two attempts
RetryWait == 1

\* @retry(stop=stop_after_attempt(3))
stop_after_attempt == 3

\* mutant: a full window still admits a request
can_make_request_when_full(reqs, t) ==
    LET kept == SelectSeq(reqs, LAMBDA r : t - r < TimeWindow)
    IN  [requests |-> kept, ok |-> Len(kept) <= MaxRequests]

\* RateLimiter.can_make_request at time t: the pruned list and the answer
can_make_request(reqs, t) ==
    LET kept == SelectSeq(reqs, LAMBDA r : t - r < TimeWindow)
    IN  [requests |-> kept, ok |-> Len(kept) < MaxRequests]

\* RateLimiter.add_request at time t
add_request(reqs, t) == Append(reqs, t)

\* min(self.requests)
Oldest(reqs) ==
    CHOOSE r \in {reqs[i] : i \in DOMAIN reqs} : \A i \in DOMAIN reqs : r <= reqs[i]

\* RateLimiter.time_until_available at time t
time_until_available(reqs, t) ==
    LET checked == can_make_request(reqs, t)
    IN  IF checked.ok THEN 0
        ELSE TimeWindow - (t - Oldest(checked.requests))

\* SuggestionRequest.current_stage
Stages == {"initial", "qualification", "objection", "closing"}

\* what `await client.chat.completions.create(...)` under asyncio.timeout
\* comes to: a response with usable choices, a response without, the
\* timeout, an openai.OpenAIError, any other exception
LLMOutcomes == {"suggestions", "no_suggestions", "TimeoutError", "OpenAIError", "Exception"}

\* the LLM call raised or timed out
LLMFailures == {"TimeoutError", "OpenAIError", "Exception"}

\* handle_openai_error(e) either returns an OpenAIServiceError, which is then
\* raised, or fails on an attribute the installed openai package lacks
OpenAIErrorHandled == {"OpenAIServiceError", "AttributeError"}

\* _process_suggestion_response on a response with usable choices;
\* confidence in hundredths
DynamicSuggestions(request) ==
    << [text |-> "choice", confidence |-> 100, type |-> "dynamic",
        stage |-> request.current_stage] >>

\* _get_fallback_suggestions; confidence in hundredths
_get_fallback_suggestions(request) ==
    LET stage == request.current_stage
        fallbacks ==
            IF stage = "initial" THEN
                <<"Would you like to tell me more about what you're looking for in a home?",
                  "What's your timeline for making a move?",
                  "Have you had a chance to view any properties in person yet?">>
            ELSE IF stage = "qualification" THEN
                <<"What features are most important to you in your next home?",
                  "Would you be interested in scheduling a viewing of some properties that match your criteria?",
                  "What areas are you most interested in?">>
            ELSE IF stage = "objection" THEN
                <<"I understand your concerns. Would it help if we discussed this in person?",
                  "What specific aspects are you most concerned about?",
                  "Let's schedule a time to meet and address all your questions in detail.">>
            ELSE
                <<"Would you be interested in scheduling a viewing?",
                  "What would be the best time for us to meet and discuss your options?",
                  "I'd love to show you some properties that match your criteria. When works best for you?">>
    IN  [i \in 1..Len(fallbacks) |->
            [text |-> fallbacks[i], confidence |-> 80, type |-> "fallback"]]

\* the statements of generate_suggestions inside its outer `try`, run at
\* time t: the limiter's list they leave, whether the LLM was called, and
\* the value returned or the exception raised into the outer handlers.  The
\* request has passed the validators of SuggestionRequest, so the history
\* and the contexts format.
TryBlock(reqs, t, request, llm, handled) ==
    LET checked == can_make_request(reqs, t)
        recorded == add_request(checked.requests, t)
    IN  IF ~checked.ok
        THEN [requests |-> checked.requests, llm |-> "not_called",
              value |-> None, raised |-> Name("AIAssistantError")]
        ELSE IF llm = "TimeoutError"
        THEN [requests |-> recorded, llm |-> llm,
              value |-> None, raised |-> Name("SuggestionGenerationError")]
        ELSE IF llm = "OpenAIError"
        THEN [requests |-> recorded, llm |-> llm,
              value |-> None, raised |-> handled]
        ELSE IF llm = "Exception"
        THEN [requests |-> recorded, llm |-> llm,
              value |-> None, raised |-> Name("SuggestionGenerationError")]
        ELSE IF llm = "no_suggestions"
        THEN LET e == Name("SuggestionGenerationError")
                 out == except_reraise("AIAssistantError", e)
             IN  [requests |-> recorded, llm |-> llm, value |-> None,
                  raised |-> IF out # None THEN out
                             ELSE Name("SuggestionGenerationError")]
        ELSE [requests |-> recorded, llm |-> llm,
              value |-> DynamicSuggestions(request), raised |-> None]

\* one run of the body of generate_suggestions: the try block, then
\* `except AIAssistantError: raise` and
\* `except Exception: return self._get_fallback_suggestions(request)`
Body(reqs, t, request, llm, handled) ==
    LET tried == TryBlock(reqs, t, request, llm, handled)
        out == except_reraise("AIAssistantError", tried.raised)
    IN  IF tried.raised = None THEN tried
        ELSE IF out # None THEN [tried EXCEPT !.raised = out]
        ELSE [tried EXCEPT !.raised = None,
                           !.value = _get_fallback_suggestions(request)]

NoRequest == [current_stage |-> None]

\* no call of generate_suggestions made yet
NoAICall ==
    [status |-> "idle", request |-> NoRequest, attempt_number |-> 0,
     llm |-> None, value |-> None, raised |-> None, wake |-> 0]

\* mutant: one attempt more before RetryError
Attempted_one_more(request, n, t, ran) ==
    IF ran.raised = None
    THEN [status |-> "returned", request |-> request, attempt_number |-> n,
          llm |-> ran.llm, value |-> ran.value, raised |-> None, wake |-> 0]
    ELSE IF n > stop_after_attempt
    THEN [status |-> "raised", request |-> request, attempt_number |-> n,
          llm |-> ran.llm, value |-> None, raised |-> "RetryError", wake |-> 0]
    ELSE [status |-> "sleeping", request |-> request, attempt_number |-> n,
          llm |-> ran.llm, value |-> None, raised |-> ran.raised,
          wake |-> t + RetryWait]

\* tenacity, after one run of the body in attempt n at time t: the value is
\* returned; or the attempts are used up and RetryError is raised; or the
\* call sleeps and runs the body again
Attempted(request, n, t, ran) ==
    IF ran.raised = None
    THEN [status |-> "returned", request |-> request, attempt_number |-> n,
          llm |-> ran.llm, value |-> ran.value, raised |-> None, wake |-> 0]
    ELSE IF n >= stop_after_attempt
    THEN [status |-> "raised", request |-> request, attempt_number |-> n,
          llm |-> ran.llm, value |-> None, raised |-> "RetryError", wake |-> 0]
    ELSE [status |-> "sleeping", request |-> request, attempt_number |-> n,
          llm |-> ran.llm, value |-> None, raised |-> ran.raised,
          wake |-> t + RetryWait]

InitAI ==
    /\ requests = <<>>
    /\ now = 0
    /\ call = NoAICall

\* AIService.generate_suggestions(request): the first attempt
generate_suggestions(request, llm, handled) ==
    /\ call.status # "sleeping"
    /\ LET ran == Body(requests, now, request, llm, handled)
       IN  /\ requests' = ran.requests
           /\ call' = Attempted(request, 1, now, ran)
    /\ UNCHANGED <<now, aiFrame>>

\* tenacity runs the body again after the sleep
retry(llm, handled) ==
    /\ call.status = "sleeping"
    /\ now >= call.wake
    /\ LET ran == Body(requests, now, call.request, llm, handled)
       IN  /\ requests' = ran.requests
           /\ call' = Attempted(call.request, call.attempt_number + 1, now, ran)
    /\ UNCHANGED <<now, aiFrame>>

\* time passes
tick ==
    /\ now < MaxTime
    /\ now' = now + 1
    /\ UNCHANGED <<requests, call, aiFrame>>

NextAI ==
    \/ \E stage \in Stages, llm \in LLMOutcomes, handled \in OpenAIErrorHandled :
            generate_suggestions([current_stage |-> stage], llm, handled)
    \/ \E llm \in LLMOutcomes, handled \in OpenAIErrorHandled : retry(llm, handled)
    \/ tick

(***************************************************************************)
(* backend/app/services/suggestion_optimizer.py.  A float score s is kept  *)
(* as the integer s * One, a weight or threshold in hundredths, and a      *)
(* total_score t as t * One * 100; every product of the code is exact in   *)
(* these units.                                                            *)
(***************************************************************************)
One == 3600
Half == One \div 2

\* the value an operator yields when the code raises (KeyError on a
\* candidate without 'text')
Raised == -1

\* a list of phrases, each written as its words
Terms(lists) == [i \in DOMAIN lists |-> Str(lists[i])]

\* sum(1 for term in terms if term in text)
Count(terms, text) == Cardinality({i \in DOMAIN terms : In(terms[i], text)})

\* any(term in text for term in terms)
AnyIn(terms, text) == \E i \in DOMAIN terms : In(terms[i], text)

\* a bool used as a number
B(b) == IF b THEN 1 ELSE 0

Min(a, b) == IF a <= b THEN a ELSE b

\* the texts of the candidates
CandidateTexts ==
    { Str(ws) : ws \in {
        <<"Would", "you", "like", "to", "schedule", "a", "tour?">>,
        <<"I", "can", "show", "you", "the", "property", "today">>,
        <<"The", "market", "value", "is", "up", "5%">>,
        <<"I", "understand">>,
        <<"hello">> } }

\* a candidate with its text, and one without
Candidates ==
    {[text |-> t, type |-> "dynamic"] : t \in CandidateTexts}
        \cup {[type |-> "dynamic"]}

\* SuggestionOptimizer.__init__
hesitation_threshold == 60
engagement_threshold == 50

weights ==
    [market_relevance |-> 25,
     emotional_match |-> 25,
     urgency |-> 20,
     engagement |-> 15,
     objection_handling |-> 15]

Aspects == <<"market_relevance", "emotional_match", "urgency", "engagement",
             "objection_handling">>

\* OptimizationContext: an Optional signal that is None has no key here;
\* emotion and engagement scores in hundredths.  Each signal alone in each
\* of its cases, all signals together, and all but one.
Contexts ==
    LET M(status, days) ==
            [market_insights |-> [market_status |-> status, days_on_market |-> days]]
        V(confident, hesitant) ==
            [voice_metrics |->
                [emotion_scores |-> [confident |-> confident, hesitant |-> hesitant,
                                     interested |-> 50]]]
        D(score) == [conversation_dynamics |-> [engagement_score |-> score]]
        O(objections) == [objections |-> objections]
        sellers == M("seller's market", 3)
        buyers == M("buyer's market", 30)
    IN  { O(<<>>),
          O(<<>>) @@ sellers,
          O(<<>>) @@ buyers,
          O(<<>>) @@ V(50, 80),
          O(<<>>) @@ V(90, 20),
          O(<<>>) @@ V(50, 50),
          O(<<>>) @@ D(30),
          O(<<>>) @@ D(60),
          O(<<"price_too_high">>),
          O(<<"budget">>),
          O(<<"need_time", "budget">>),
          O(<<"price_too_high">>) @@ sellers @@ V(50, 80) @@ D(30),
          O(<<"need_time">>) @@ buyers @@ V(90, 20) @@ D(60),
          O(<<"price_too_high">>) @@ V(50, 80) @@ D(30),
          O(<<"price_too_high">>) @@ sellers @@ D(30),
          O(<<"price_too_high">>) @@ sellers @@ V(50, 80),
          O(<<>>) @@ sellers @@ V(50, 80) @@ D(30) }

\* _score_market_relevance: what it finds in each text
market_terms ==
    Terms(<< <<"market">>, <<"price">>, <<"value">>, <<"trend">>, <<"similar">>,
             <<"median">>, <<"comparison">>, <<"inventory">>,
             <<"days", "on", "market">> >>)

MarketRelevanceOf ==
    [text0 \in CandidateTexts |->
        LET text == lower(text0) IN
        [term_usage |-> Count(market_terms, text),
         has_price  |-> AnyIn(Terms(<< <<"$">>, <<"dollar">> >>), text),
         has_trends |-> AnyIn(Terms(<< <<"%">>, <<"percent">> >>), text),
         has_timing |-> AnyIn(Terms(<< <<"days">>, <<"quickly">> >>), text)]]

_score_market_relevance(suggestion, context) ==
    IF "market_insights" \notin DOMAIN context THEN Half
    ELSE IF "text" \notin DOMAIN suggestion THEN Raised
    ELSE LET found == MarketRelevanceOf[suggestion.text]
             \* (term_usage / len(market_terms)) * 0.4 + 0.2 per reference
             score == (found.term_usage * One * 4) \div (Len(market_terms) * 10)
                      + B(found.has_price) * (One \div 5)
                      + B(found.has_trends) * (One \div 5)
                      + B(found.has_timing) * (One \div 5)
         IN  Min(One, score)

\* _score_emotional_match: what it finds in each text
EmotionalMatchOf ==
    [text0 \in CandidateTexts |->
        LET text == lower(text0) IN
        [reassuring |->
            Count(Terms(<< <<"understand">>, <<"appreciate">>, <<"help", "you">>,
                           <<"let", "me">>, <<"share">> >>), text),
         confidence |->
            Count(Terms(<< <<"definitely">>, <<"absolutely">>, <<"certainly">>,
                           <<"great", "opportunity">> >>), text),
         interest_building |->
            Count(Terms(<< <<"unique">>, <<"special">>, <<"perfect">>, <<"ideal">>,
                           <<"exclusive">> >>), text)]]

_score_emotional_match(suggestion, context) ==
    IF "voice_metrics" \notin DOMAIN context THEN Half
    ELSE IF "text" \notin DOMAIN suggestion THEN Raised
    ELSE LET found == EmotionalMatchOf[suggestion.text]
             emotion_scores == context.voice_metrics.emotion_scores
             score == IF emotion_scores.hesitant > hesitation_threshold
                      THEN (found.reassuring * One) \div 5
                      ELSE IF emotion_scores.confident > 70
                      THEN (found.confidence * One) \div 4
                      ELSE (found.interest_building * One) \div 5
         IN  Min(One, score)

\* _score_urgency: what it finds in each text
UrgencyOf ==
    [text0 \in CandidateTexts |->
        LET text == lower(text0) IN
        [sellers |->
            Count(Terms(<< <<"quickly">>, <<"fast">>, <<"won't", "last">>,
                           <<"competitive">>, <<"multiple">>, <<"soon">>,
                           <<"today">>, <<"now">> >>), text),
         buyers |->
            Count(Terms(<< <<"opportunity">>, <<"advantage">>, <<"favorable">>,
                           <<"potential">>, <<"negotiate">>, <<"value">> >>), text)]]

\* the text is read before the market insights are looked at
_score_urgency_text_first(suggestion, context) ==
    IF "text" \notin DOMAIN suggestion THEN Raised
    ELSE IF "market_insights" \notin DOMAIN context THEN Half
    ELSE Min(One, (UrgencyOf[suggestion.text].sellers * One) \div 8)

_score_urgency(suggestion, context) ==
    IF "market_insights" \notin DOMAIN context THEN Half
    ELSE IF "text" \notin DOMAIN suggestion THEN Raised
    ELSE LET found == UrgencyOf[suggestion.text]
             market_status == context.market_insights.market_status
             score == IF market_status = "seller's market"
                      THEN (found.sellers * One) \div 8
                      ELSE IF market_status = "buyer's market"
                      THEN (found.buyers * One) \div 6
                      ELSE Half
             adjusted == IF context.market_insights.days_on_market < 7
                         THEN (score * 12) \div 10
                         ELSE score
         IN  Min(One, adjusted)

\* _score_engagement: what it finds in each text
EngagementOf ==
    [text0 \in CandidateTexts |->
        LET text == lower(text0) IN
        [has_question |-> In(Str(<<"?">>), text),
         has_invitation |->
            AnyIn(Terms(<< <<"would", "you">>, <<"could", "you">>, <<"what", "if">>,
                         <<"how", "about">>, <<"tell", "me">>,
                         <<"share", "with", "me">> >>), text),
         has_acknowledgment |->
            AnyIn(Terms(<< <<"understand">>, <<"hear">>, <<"appreciate">>,
                         <<"interesting">> >>), text)]]

_score_engagement(suggestion, context) ==
    IF "conversation_dynamics" \notin DOMAIN context THEN Half
    ELSE IF "text" \notin DOMAIN suggestion THEN Raised
    ELSE LET found == EngagementOf[suggestion.text]
             score == B(found.has_question) * ((One * 4) \div 10)
                      + B(found.has_invitation) * ((One * 3) \div 10)
                      + B(found.has_acknowledgment) * ((One * 3) \div 10)
             adjusted == IF context.conversation_dynamics.engagement_score
                                < engagement_threshold
                         THEN (score * 12) \div 10
                         ELSE score
         IN  Min(One, adjusted)

\* _score_objection_handling: matches / len(patterns) per known objection
ObjectionHandlingOf ==
    [text0 \in CandidateTexts |->
        LET text == lower(text0) IN
        [price_too_high |->
            (Count(Terms(<< <<"value">>, <<"worth">>, <<"investment">>,
                            <<"comparable">>, <<"market">> >>), text) * One) \div 5,
         just_looking |->
            (Count(Terms(<< <<"help">>, <<"guide">>, <<"information">>,
                            <<"explore">>, <<"options">> >>), text) * One) \div 5,
         need_time |->
            (Count(Terms(<< <<"understand">>, <<"process">>, <<"when">>,
                            <<"timeline">>, <<"flexible">> >>), text) * One) \div 5,
         need_to_sell |->
            (Count(Terms(<< <<"assist">>, <<"coordinate">>, <<"strategy">>,
                            <<"handle">>, <<"plan">> >>), text) * One) \div 5,
         location |->
            (Count(Terms(<< <<"area">>, <<"neighborhood">>, <<"community">>,
                            <<"convenient">>, <<"located">> >>), text) * One) \div 5]]

_score_objection_handling(suggestion, context) ==
    IF context.objections = <<>> THEN Half
    ELSE IF "text" \notin DOMAIN suggestion THEN Raised
    ELSE LET found == ObjectionHandlingOf[suggestion.text]
             scores == { found[context.objections[i]] :
                            i \in { j \in DOMAIN context.objections :
                                      context.objections[j] \in DOMAIN found } }
         IN  IF scores = {} THEN Half
             ELSE CHOOSE s \in scores : \A other \in scores : other <= s

\* _categorize_suggestion of each text
CategoryOf ==
    [text \in CandidateTexts |->
        IF In(Str(<<"?">>), text) THEN "question"
        ELSE IF AnyIn(Terms(<< <<"schedule">>, <<"tour">>, <<"visit">>, <<"show">> >>),
                    lower(text))
        THEN "appointment"
        ELSE IF AnyIn(Terms(<< <<"market">>, <<"price">>, <<"value">>, <<"trend">> >>),
                    lower(text))
        THEN "market_info"
        ELSE IF AnyIn(Terms(<< <<"understand">>, <<"hear">>, <<"appreciate">> >>),
                    lower(text))
        THEN "empathy"
        ELSE "other"]

_categorize_suggestion(text) == CategoryOf[text]

\* every suggestion visited is appended
Admitted_always(suggestion_type, added_types, final_suggestions) == TRUE

\* `if suggestion_type not in added_types or len(final_suggestions) < 2`
Admitted(suggestion_type, added_types, final_suggestions) ==
    suggestion_type \notin added_types \/ Len(final_suggestions) < 2

\* the loop of _adjust_suggestions from the i-th suggestion on
RECURSIVE AdjustFrom(_, _, _, _)
AdjustFrom(suggestions, i, final_suggestions, added_types) ==
    IF i > Len(suggestions)
    THEN [raised |-> FALSE, value |-> final_suggestions]
    ELSE IF "text" \notin DOMAIN suggestions[i]
    THEN [raised |-> TRUE, value |-> <<>>]
    ELSE LET suggestion_type == _categorize_suggestion(suggestions[i].text)
             added == Admitted(suggestion_type, added_types, final_suggestions)
             final == IF added THEN Append(final_suggestions, suggestions[i])
                      ELSE final_suggestions
             types == IF added THEN added_types \cup {suggestion_type}
                      ELSE added_types
         IN  IF Len(final) >= 3
             THEN [raised |-> FALSE, value |-> final]
             ELSE AdjustFrom(suggestions, i + 1, final, types)

_adjust_suggestions(suggestions, context) == AdjustFrom(suggestions, 1, <<>>, {})

\* the five scores of one suggestion
Scores(suggestion, context) ==
    [market_relevance |-> _score_market_relevance(suggestion, context),
     emotional_match |-> _score_emotional_match(suggestion, context),
     urgency |-> _score_urgency(suggestion, context),
     engagement |-> _score_engagement(suggestion, context),
     objection_handling |-> _score_objection_handling(suggestion, context)]

RECURSIVE WeightedSum(_, _)
WeightedSum(scores, i) ==
    IF i > Len(Aspects) THEN 0
    ELSE scores[Aspects[i]] * weights[Aspects[i]] + WeightedSum(scores, i + 1)

\* the dict appended to scored_suggestions: the suggestion with its scores
Scored(suggestion, scores) ==
    [optimization_scores |-> scores, total_score |-> WeightedSum(scores, 1)]
        @@ suggestion

ScoredSuggestion(suggestion, context) ==
    Scored(suggestion, Scores(suggestion, context))

\* the list left in the order of the input
SortedByTotalScore_input_order(s) == s

\* list.sort(key=total_score, reverse=True): stable, equal keys keep their order
RECURSIVE SortedByTotalScore(_)
SortedByTotalScore(s) ==
    IF s = <<>> THEN <<>>
    ELSE LET front == SortedByTotalScore(SubSeq(s, 1, Len(s) - 1))
             x == s[Len(s)]
             k == Cardinality({i \in DOMAIN front :
                                 front[i].total_score >= x.total_score})
         IN  SubSeq(front, 1, k) \o <<x>> \o SubSeq(front, k + 1, Len(front))

\* one call of optimize_suggestions: the scored list (empty when scoring
\* raised), whether the try block raised, and the list returned
OptimizeSuggestions(suggestions, context) ==
    LET scores == [i \in DOMAIN suggestions |-> Scores(suggestions[i], context)]
        scoring_raised == \E i \in DOMAIN suggestions, k \in DOMAIN Aspects :
                              scores[i][Aspects[k]] = Raised
        scored_suggestions ==
            IF scoring_raised THEN <<>>
            ELSE SortedByTotalScore(
                    [i \in DOMAIN suggestions |->
                        Scored(suggestions[i], scores[i])])
        final_suggestions == _adjust_suggestions(scored_suggestions, context)
        raised == scoring_raised \/ final_suggestions.raised
    IN  [status |-> "returned",
         suggestions |-> suggestions,
         context |-> context,
         scored |-> scored_suggestions,
         raised |-> raised,
         returned |-> IF raised THEN suggestions ELSE final_suggestions.value]

\* the longest list of candidates passed in
MaxCandidates == 4

CandidateLists ==
    UNION { [1..n -> Candidates] : n \in 0..MaxCandidates }

\* optimize_suggestions was not called
NoOptimization ==
    [status |-> "idle", suggestions |-> <<>>, context |-> [objections |-> <<>>],
     scored |-> <<>>, raised |-> FALSE, returned |-> <<>>]

\* optimize_suggestions(suggestions, context) was entered
Called(suggestions, context) ==
    [status |-> "called", suggestions |-> suggestions, context |-> context,
     scored |-> <<>>, raised |-> FALSE, returned |-> <<>>]

InitOptimizer == optimized = NoOptimization

\* SuggestionOptimizer.optimize_suggestions(suggestions, context)
optimize_suggestions ==
    /\ optimized.status = "called"
    /\ optimized' = OptimizeSuggestions(optimized.suggestions, optimized.context)
    /\ UNCHANGED optimizerFrame

NextOptimizer == optimize_suggestions

(***************************************************************************)
(* backend/app/services/suggestion_generator.py: the pooled suggestions    *)
(* of generate_suggestions, their deduplication and their ranking.         *)
(* Confidences are in hundredths, a similarity s is the integer s * One.   *)
(***************************************************************************)
\* the texts of the pooled suggestions
PoolTexts ==
    { Str(ws) : ws \in {
        <<"Would", "you", "like", "to", "schedule", "a", "tour">>,
        <<"would", "you", "like", "to", "schedule", "a", "tour", "today">>,
        <<"would", "you", "like", "to", "schedule", "a", "visit">>,
        <<"What", "is", "your", "timeline">>,
        <<"what", "is", "your", "timeline", "now">>,
        <<>> } }

\* the 'type' of a pooled suggestion: its 'confidence' and the place of its
\* source in `ai_suggestions + template_suggestions + qualifying_questions`
PoolTypes ==
    [dynamic             |-> [confidence |-> 100, source |-> 1],
     fallback            |-> [confidence |-> 80, source |-> 1],
     initial_greeting    |-> [confidence |-> 90, source |-> 2],
     qualifying_question |-> [confidence |-> 75, source |-> 3]]

\* set(text.lower().split()): the maximal runs of characters other than blanks
Tokens(text0) ==
    LET text == lower(text0)
        starts == {i \in DOMAIN text :
                     text[i] # " " /\ (i = 1 \/ text[i - 1] = " ")}
        end(i) == CHOOSE j \in i..Len(text) :
                     /\ \A k \in i..j : text[k] # " "
                     /\ (j = Len(text) \/ text[j + 1] = " ")
    IN  {SubSeq(text, i, end(i)) : i \in starts}

\* the token set of each text
TokensOf == [text \in PoolTexts |-> Tokens(text)]

\* the overlap measured against the first text's tokens alone
_calculate_similarity_of_first(text1, text2) ==
    LET tokens1 == TokensOf[text1]
        tokens2 == TokensOf[text2]
    IN  IF tokens1 # {} THEN (Cardinality(tokens1 \cap tokens2) * One)
                                \div Cardinality(tokens1)
        ELSE 0

_calculate_similarity(text1, text2) ==
    LET tokens1 == TokensOf[text1]
        tokens2 == TokensOf[text2]
        intersection == tokens1 \cap tokens2
        union == tokens1 \cup tokens2
    IN  IF union # {} THEN (Cardinality(intersection) * One) \div Cardinality(union)
        ELSE 0

\* the loop of _remove_similar_suggestions from the i-th suggestion on
RECURSIVE RemoveSimilarFrom(_, _, _)
RemoveSimilarFrom(suggestions, i, unique_suggestions) ==
    IF i > Len(suggestions) THEN unique_suggestions
    ELSE LET is_unique ==
                 ~ \E k \in DOMAIN unique_suggestions :
                      _calculate_similarity(suggestions[i].text,
                                            unique_suggestions[k].text)
                          > (One * 8) \div 10
         IN  RemoveSimilarFrom(suggestions, i + 1,
                               IF is_unique
                               THEN Append(unique_suggestions, suggestions[i])
                               ELSE unique_suggestions)

_remove_similar_suggestions(suggestions) == RemoveSimilarFrom(suggestions, 1, <<>>)

\* key=lambda x: (x["confidence"], -len(x["text"])): a's key is >= b's
KeyAtLeast(a, b) ==
    \/ a.confidence > b.confidence
    \/ a.confidence = b.confidence /\ Len(a.text) <= Len(b.text)

\* sorted(unique_suggestions, key=..., reverse=True): stable
RECURSIVE sorted_suggestions(_)
sorted_suggestions(s) ==
    IF s = <<>> THEN <<>>
    ELSE LET front == sorted_suggestions(SubSeq(s, 1, Len(s) - 1))
             x == s[Len(s)]
             k == Cardinality({i \in DOMAIN front : KeyAtLeast(front[i], x)})
         IN  SubSeq(front, 1, k) \o <<x>> \o SubSeq(front, k + 1, Len(front))

\* int(os.getenv('MAX_SUGGESTIONS', '3'))
max_suggestions == 3

\* generate_suggestions from `all_suggestions = ...` to `top_suggestions`
RankPooled(all_suggestions) ==
    LET unique_suggestions == _remove_similar_suggestions(all_suggestions)
        sorted == sorted_suggestions(unique_suggestions)
    IN  [status |-> "returned",
         all_suggestions |-> all_suggestions,
         unique_suggestions |-> unique_suggestions,
         sorted_suggestions |-> sorted,
         top_suggestions |-> SubSeq(sorted, 1, Min(max_suggestions, Len(sorted)))]

\* the longest pool
MaxPool == 3

\* the AI service returns its own suggestions or its fallbacks; greetings
\* are pooled in the initial stage, qualifying questions in later stages
Pools ==
    LET PoolCandidates ==
            {[text |-> text, confidence |-> PoolTypes[type].confidence, type |-> type] :
                text \in PoolTexts, type \in DOMAIN PoolTypes}
        types(s) == {s[i].type : i \in DOMAIN s}
    IN  { s \in UNION { [1..n -> PoolCandidates] : n \in 0..MaxPool } :
            /\ \A i, j \in DOMAIN s :
                   i < j => PoolTypes[s[i].type].source <= PoolTypes[s[j].type].source
            /\ ~ {"dynamic", "fallback"} \subseteq types(s)
            /\ ~ {"initial_greeting", "qualifying_question"} \subseteq types(s) }

\* no suggestions were pooled
NoPool ==
    [status |-> "idle", all_suggestions |-> <<>>, unique_suggestions |-> <<>>,
     sorted_suggestions |-> <<>>, top_suggestions |-> <<>>]

InitGenerator == pooled = NoPool

\* SuggestionGenerator.generate_suggestions once the suggestions are pooled
rank_suggestions ==
    /\ pooled.status = "pooled"
    /\ pooled' = RankPooled(pooled.all_suggestions)
    /\ UNCHANGED generatorFrame

NextGenerator == rank_suggestions

(***************************************************************************)
(* backend/app/services/alm_tracker.py.  completion_percentage c is kept   *)
(* as the integer c * One; a confidence in hundredths; a timestamp as the   *)
(* time of the clock.                                                      *)
(***************************************************************************)
\* ALMTracker.alm_questions
alm_questions ==
    [area |->
        <<"What areas are you interested in?",
          "Which neighborhoods are you considering?",
          "What parts of [city] appeal to you most?",
          "Where are you looking to buy?">>,
     location_needs |->
        <<"What's most important to you about the location?",
          "What do you need to be close to?",
          "Are there specific features you're looking for in the location?",
          "What's your ideal commute time?">>,
     money |->
        <<"Have you spoken with a lender about your purchase price range?",
          "What price range are you comfortable with?",
          "Have you been pre-approved for a mortgage?",
          "What monthly payment works for your budget?">>]

\* what re.finditer finds in each transcript with the patterns of
\* alm_indicators, per component, in the order the two loops visit the
\* matches
re_finditer ==
    ("" :>
        [area |-> <<>>, location_needs |-> <<>>, money |-> <<>>]) @@
    ("hello" :>
        [area |-> <<>>, location_needs |-> <<>>, money |-> <<>>]) @@
    ("I am looking in the downtown area" :>
        [area |-> <<"looking in the downtown area", "downtown area",
                    "I am looking in the downtown area">>,
         location_needs |-> <<>>, money |-> <<>>]) @@
    ("we want to be close to work" :>
        [area |-> <<>>, location_needs |-> <<"close to work">>, money |-> <<>>]) @@
    ("I have been pre-approved" :>
        [area |-> <<>>, location_needs |-> <<>>, money |-> <<"pre-approved">>]) @@
    ("our budget around $500K" :>
        [area |-> <<>>, location_needs |-> <<>>,
         money |-> <<"budget around $500K">>]) @@
    ("I like the north side and a quiet street" :>
        [area |-> <<"north side and a quiet street">>,
         location_needs |-> <<"quiet">>, money |-> <<>>]) @@
    ("I am looking in the downtown area and I have been pre-approved" :>
        [area |-> <<"looking in the downtown area",
                    "downtown area and I have been pre",
                    "I am looking in the downtown area">>,
         location_needs |-> <<>>, money |-> <<"pre-approved">>]) @@
    ("we want a quiet street and we talked to a lender" :>
        [area |-> <<>>, location_needs |-> <<"quiet">>, money |-> <<"lender">>]) @@
    ("I like the downtown area, a short commute time and we talked to a lender" :>
        [area |-> <<"downtown area", "I like the downtown area">>,
         location_needs |-> <<"commute time">>, money |-> <<"lender">>]) @@
    ("I like the downtown area, a short commute time and our budget around $500K" :>
        [area |-> <<"downtown area", "I like the downtown area">>,
         location_needs |-> <<"commute time">>,
         money |-> <<"budget around $500K">>]) @@
    ("downtown area. commute time. down payment, lender" :>
        [area |-> <<"downtown area", "downtown area">>,
         location_needs |-> <<"commute time">>,
         money |-> <<"lender", "down payment">>]) @@
    ("our budget around $500K and we talked to a lender" :>
        [area |-> <<>>, location_needs |-> <<>>,
         money |-> <<"budget around $500K", "lender">>])

\* the characters of the money values met
Chars ==
    ("pre-approved" :>
        <<"p", "r", "e", "-", "a", "p", "p", "r", "o", "v", "e", "d">>) @@
    ("lender" :>
        <<"l", "e", "n", "d", "e", "r">>) @@
    ("down payment" :>
        <<"d", "o", "w", "n", " ", "p", "a", "y", "m", "e", "n", "t">>) @@
    ("budget around $500K" :>
        <<"b", "u", "d", "g", "e", "t", " ", "a", "r", "o", "u", "n", "d", " ", "$", "5", "0", "0", "K">>) @@
    ("150K" :>
        <<"1", "5", "0", "K">>) @@
    ("1.2M" :>
        <<"1", ".", "2", "M">>) @@
    ("payment about 5,000" :>
        <<"p", "a", "y", "m", "e", "n", "t", " ", "a", "b", "o", "u", "t", " ", "5", ",", "0", "0", "0">>)

Digit == {"0", "1", "2", "3", "4", "5", "6", "7", "8", "9"}

DigitValue ==
    [c \in Digit |-> CHOOSE n \in 0..9 : <<"0", "1", "2", "3", "4", "5", "6", "7", "8", "9">>[n + 1] = c]

\* re.search(r'\$?\d', value)
HasDigit(value) == \E i \in DOMAIN Chars[value] : Chars[value][i] \in Digit

\* ''.join(chars)
RECURSIVE Join(_)
Join(chars) == IF chars = <<>> THEN "" ELSE chars[1] \o Join(Tail(chars))

\* str.rstrip(strip)
RECURSIVE rstrip(_, _)
rstrip(chars, strip) ==
    IF chars # <<>> /\ chars[Len(chars)] \in strip
    THEN rstrip(SubSeq(chars, 1, Len(chars) - 1), strip)
    ELSE chars

\* the digits of a str read as one natural number
RECURSIVE Number(_)
Number(chars) ==
    IF chars = <<>> THEN 0
    ELSE Number(SubSeq(chars, 1, Len(chars) - 1)) * 10 + DigitValue[chars[Len(chars)]]

RECURSIVE Power10(_)
Power10(k) == IF k = 0 THEN 1 ELSE 10 * Power10(k - 1)

\* str(n) of a natural number
RECURSIVE Decimal(_)
Decimal(n) ==
    IF n < 10 THEN <<CHOOSE c \in Digit : DigitValue[c] = n>>
    ELSE Decimal(n \div 10) \o <<CHOOSE c \in Digit : DigitValue[c] = n % 10>>

\* str(int(float(chars) * multiplier)); float() raises ValueError on a str
\* that is not digits with at most one point
Expanded(chars, multiplier) ==
    LET points == {i \in DOMAIN chars : chars[i] = "."}
        digits == SelectSeq(chars, LAMBDA c : c \in Digit)
        is_float == /\ \A i \in DOMAIN chars : chars[i] \in Digit \cup {"."}
                    /\ Cardinality(points) <= 1
                    /\ digits # <<>>
        decimals == IF points = {} THEN 0
                    ELSE Len(chars) - (CHOOSE i \in points : TRUE)
    IN  IF is_float
        THEN [raised |-> None,
              chars |-> Decimal((Number(digits) * multiplier) \div Power10(decimals))]
        ELSE [raised |-> "ValueError", chars |-> <<>>]

\* ALMTracker._standardize_money(value): clean_value as it stands when the
\* function ends, the exception raised, the value returned.  The last line
\* formats clean_value, a str, with ',' and raises ValueError for every str.
_standardize_money(value) ==
    LET clean == SelectSeq(Chars[value],
                           LAMBDA c : c \in Digit \cup {".", ",", "K", "k", "M", "m"})
        last == IF clean = <<>> THEN "" ELSE clean[Len(clean)]
        expanded == IF last \in {"K", "k"} THEN Expanded(rstrip(clean, {"K", "k"}), 1000)
                    ELSE IF last \in {"M", "m"}
                    THEN Expanded(rstrip(clean, {"M", "m"}), 1000000)
                    ELSE [raised |-> None, chars |-> clean]
    IN  [raised |-> "ValueError", clean_value |-> Join(expanded.chars), value |-> None]

\* ALMStatus(): a component without a value
NoValue == [value |-> None, confidence |-> None, timestamp |-> None]

\* the two loops over the patterns and their matches, from the i-th match on
RECURSIVE Matched(_, _, _, _, _)
Matched(component, matches, i, confidence, value) ==
    IF i > Len(matches)
    THEN [raised |-> None, confidence |-> confidence, value |-> value]
    ELSE LET found == IF confidence >= 80 THEN confidence ELSE 80
         IN  IF component = "money" /\ HasDigit(matches[i])
             THEN LET standard == _standardize_money(matches[i])
                  IN  IF standard.raised # None
                      THEN [raised |-> standard.raised, confidence |-> found,
                            value |-> None]
                      ELSE Matched(component, matches, i + 1, 90, standard.value)
             ELSE Matched(component, matches, i + 1, found, matches[i])

\* the body of `for component, patterns in ...` for one component at time
\* t: the dict stored in the status
Component(component, matches, t) ==
    LET matched == Matched(component, matches, 1, 0, None)
    IN  IF matched.raised # None
        THEN [raised |-> matched.raised, dict |-> NoValue]
        ELSE IF matched.value = None
        THEN [raised |-> None, dict |-> NoValue]
        ELSE [raised |-> None,
              dict |-> [value |-> matched.value, confidence |-> matched.confidence,
                        timestamp |-> t]]

\* completed / 2
_calculate_completion_of_two(status) ==
    (Cardinality({c \in {"area", "location_needs", "money"} :
                     status[c].value # None}) * One) \div 2

_calculate_completion(status) ==
    LET completed == (IF status.area.value # None THEN 1 ELSE 0)
                     + (IF status.location_needs.value # None THEN 1 ELSE 0)
                     + (IF status.money.value # None THEN 1 ELSE 0)
        total_components == 3
    IN  (completed * One) \div total_components

_get_missing_elements(status) ==
    (IF status.area.value = None THEN <<"area">> ELSE <<>>)
        \o (IF status.location_needs.value = None THEN <<"location_needs">> ELSE <<>>)
        \o (IF status.money.value = None THEN <<"money">> ELSE <<>>)

\* the area is asked for before the money
_get_next_question_area_first(status) ==
    IF status.area.value = None THEN alm_questions.area[1]
    ELSE IF status.money.value = None THEN alm_questions.money[1]
    ELSE IF status.location_needs.value = None THEN alm_questions.location_needs[1]
    ELSE None

_get_next_question(status) ==
    IF status.money.value = None THEN alm_questions.money[1]
    ELSE IF status.area.value = None THEN alm_questions.area[1]
    ELSE IF status.location_needs.value = None THEN alm_questions.location_needs[1]
    ELSE None

\* analyze_conversation was not called
NoAnalysis ==
    [transcript |-> None, raised |-> None,
     area |-> NoValue, location_needs |-> NoValue, money |-> NoValue,
     completion_percentage |-> 0, is_qualified |-> FALSE,
     missing_elements |-> <<>>, next_question |-> None]

\* one call of ALMTracker.analyze_conversation: the ALMStatus returned, or
\* the exception raised
AnalyzeConversation(transcript, found, t) ==
    LET area == Component("area", found.area, t)
        location_needs == Component("location_needs", found.location_needs, t)
        money == Component("money", found.money, t)
        status == [area |-> area.dict, location_needs |-> location_needs.dict,
                   money |-> money.dict]
        completion_percentage == _calculate_completion(status)
    IN  IF money.raised # None
        THEN [NoAnalysis EXCEPT !.transcript = transcript, !.raised = money.raised]
        ELSE [transcript |-> transcript, raised |-> None,
              area |-> status.area,
              location_needs |-> status.location_needs,
              money |-> status.money,
              completion_percentage |-> completion_percentage,
              is_qualified |-> completion_percentage >= (One * 8) \div 10,
              missing_elements |-> _get_missing_elements(status),
              next_question |-> _get_next_question(status)]

(***************************************************************************)
(* backend/app/services/alm_manager.py                                     *)
(***************************************************************************)
appointment_questions ==
    [in_person |->
        <<"Great, when would you like to go see the property?",
          "Would tomorrow or the next day work better for viewing?",
          "Are mornings or afternoons better for you?">>,
     video |->
        <<"Great, I'd be happy to get you a recorded video tour for that property or do a live video tour with you from the property so you can ask questions in real-time. What works best for you?">>,
     alternative |->
        <<"When would you like to see other similar homes in the area?">>]

location_questions ==
    <<"Are there any other properties you've been looking at? I'd be happy to arrange tours for those as well.",
      "Are you only interested in this area, or are you open to seeing alternative locations and neighborhoods?">>

motivation_questions ==
    <<"What interests you about this property?",
      "How long have you been looking?",
      "Have you seen any other properties?">>

\* the ALMStage objects get_next_question is given
ALMStages ==
    [appointment : [secured : BOOLEAN,
                    date_time : {None, "tomorrow at 10am"},
                    type : {"in_person", "video"},
                    multiple_properties : BOOLEAN],
     location : [discussed : BOOLEAN],
     motivation : [discussed : BOOLEAN]]

_get_appointment_confirmation(alm_stage) ==
    IF alm_stage.appointment.date_time = None
    THEN "I'm excited to show you these properties! What time works best for your schedule?"
    ELSE LET viewing_type == IF alm_stage.appointment.type = "in_person"
                             THEN "see" ELSE "do the video tour of"
             properties == IF alm_stage.appointment.multiple_properties
                           THEN "properties" ELSE "property"
         IN  "Perfect! I'm really looking forward to our appointment! Just to confirm, we'll "
                \o viewing_type \o " the " \o properties \o " at "
                \o alm_stage.appointment.date_time
                \o ". I'm excited to help you explore these homes! "
                \o "I'll send you all the details right away!"

\* everything completed: no question
ALMManager_get_next_question_none(alm_stage, property_available) ==
    IF ~ alm_stage.appointment.secured
    THEN appointment_questions.in_person[1]
    ELSE IF ~ alm_stage.location.discussed THEN location_questions[1]
    ELSE IF ~ alm_stage.motivation.discussed THEN motivation_questions[1]
    ELSE None

\* ALMManager.get_next_question
ALMManager_get_next_question(alm_stage, property_available) ==
    IF ~ alm_stage.appointment.secured
    THEN IF property_available THEN appointment_questions.in_person[1]
         ELSE appointment_questions.alternative[1]
    ELSE IF ~ alm_stage.location.discussed THEN location_questions[1]
    ELSE IF ~ alm_stage.motivation.discussed THEN motivation_questions[1]
    ELSE _get_appointment_confirmation(alm_stage)

(***************************************************************************)
(* conversation_analyzer.py: get_next_question                             *)
(***************************************************************************)
ConversationAnalyzer_get_next_question(self) ==
    IF ~ self.state.appointment_set THEN ALM_QUESTIONS.appointment[1]
    ELSE IF ~ self.state.location_discussed THEN ALM_QUESTIONS.location[1]
    ELSE IF ~ self.state.motivation_uncovered THEN ALM_QUESTIONS.motivation[1]
    ELSE CLOSING_TEMPLATES.appointment_set.template

(***************************************************************************)
(* The qualification tracker, the ALM manager and the analyzer asked for   *)
(* their next question                                                     *)
(***************************************************************************)
\* no get_next_question call was made
NotAsked ==
    [by |-> None,
     alm_stage |-> [appointment |-> [secured |-> FALSE, date_time |-> None,
                                     type |-> "in_person",
                                     multiple_properties |-> FALSE],
                    location |-> [discussed |-> FALSE],
                    motivation |-> [discussed |-> FALSE]],
     property_available |-> TRUE,
     question |-> None]

\* _standardize_money was not called
NotStandardized == [input |-> None, raised |-> None, clean_value |-> None, value |-> None]

InitALM ==
    /\ tracked = NoAnalysis
    /\ asked = NotAsked
    /\ standardized = NotStandardized

\* ALMTracker.analyze_conversation(transcript)
analyze_conversation(transcript) ==
    /\ tracked' = AnalyzeConversation(transcript, re_finditer[transcript], now)
    /\ UNCHANGED <<asked, standardized, almFrame>>

\* ALMManager.get_next_question(alm_stage, property_available)
alm_manager_get_next_question(alm_stage, property_available) ==
    /\ asked' = [by |-> "ALMManager", alm_stage |-> alm_stage,
                 property_available |-> property_available,
                 question |-> ALMManager_get_next_question(alm_stage,
                                                           property_available)]
    /\ UNCHANGED <<tracked, standardized, almFrame>>

\* ConversationAnalyzer.get_next_question(): the ALM flags of the analyzer
\* are recorded as an ALMStage
get_next_question ==
    /\ asked' = [NotAsked EXCEPT
                    !.by = "ConversationAnalyzer",
                    !.alm_stage.appointment.secured = state.appointment_set,
                    !.alm_stage.location.discussed = state.location_discussed,
                    !.alm_stage.motivation.discussed = state.motivation_uncovered,
                    !.question = ConversationAnalyzer_get_next_question(
                                    [state |-> state])]
    /\ UNCHANGED <<tracked, standardized, almFrame>>

\* ALMTracker._standardize_money(value)
standardize_money(value) ==
    /\ standardized' = [input |-> value] @@ _standardize_money(value)
    /\ UNCHANGED <<tracked, asked, almFrame>>

\* the tracker analysing transcripts as time passes
NextTracker ==
    \/ \E transcript \in DOMAIN re_finditer : analyze_conversation(transcript)
    \/ \E value \in DOMAIN Chars : standardize_money(value)
    \/ tick

NextALM ==
    \/ \E transcript \in DOMAIN re_finditer : analyze_conversation(transcript)
    \/ \E alm_stage \in ALMStages, property_available \in BOOLEAN :
            alm_manager_get_next_question(alm_stage, property_available)
    \/ get_next_question
    \/ \E text \in { Str(ws) : ws \in { <<"this", "is", "Mike", "with", "ABC", "Realty">>,
                                          <<"yes">> } },
          speaker \in Speakers :
            analyze_speech(text, speaker)

(***************************************************************************)
(* backend/app/main.py, backend/core/websocket_manager.py and              *)
(* backend/services/suggestion_generator.py.  process_speech is handed to  *)
(* BackgroundTasks and runs at some later time; from its first await on it *)
(* interleaves with the endpoints and with the other tasks.  Keepalive     *)
(* messages are not kept in `sent`.                                        *)
(***************************************************************************)
ClientIds == {"client-1", "client-2"}

\* the texts recognize_google returns
Segments ==
    { Str(ws) : ws \in { <<"this", "is", "Mike", "with", "ABC", "Realty">>, <<"yes">> } }

\* what transcribe_audio returns as its status
TranscriptionStatus == {"success", "no_speech", "error"}

agent_indicators ==
    << Str(<<"this", "is">>),
       Str(<<"with", "realty">>),
       Str(<<"would", "you", "like", "to", "see">>),
       Str(<<"i", "can", "show", "you">>),
       Str(<<"are", "you", "available">>),
       Str(<<"excited", "to", "work", "with", "you">>),
       Str(<<"i", "understand">>),
       Str(<<"let", "me">>),
       Str(<<"i", "would", "be", "happy", "to">>) >>

\* SuggestionGenerator._detect_speaker of each segment
SegmentSpeaker ==
    [text \in Segments |->
        IF \E i \in DOMAIN agent_indicators : In(agent_indicators[i], lower(text))
        THEN "agent"
        ELSE "client"]

\* ConversationContext(transcript=..., last_segment=...)
ConversationContext(transcript, last_segment) ==
    [transcript |-> transcript, last_segment |-> last_segment,
     current_stage |-> None, appointment_set |-> FALSE,
     location_discussed |-> FALSE, motivation_uncovered |-> FALSE]

_get_primary_suggestion(analysis, context) ==
    IF "suggestion_type" \in DOMAIN analysis /\ analysis.suggestion_type = "objection_handler"
    THEN analysis.suggestion
    ELSE IF ~ context.appointment_set THEN ALM_QUESTIONS.appointment[1]
    ELSE IF ~ context.location_discussed THEN ALM_QUESTIONS.location[1]
    ELSE IF ~ context.motivation_uncovered THEN ALM_QUESTIONS.motivation[1]
    ELSE CLOSING_TEMPLATES.appointment_set.template

_get_alternative_suggestions(analysis, context) ==
    IF context.current_stage \in {"appointment", "location", "motivation"}
    THEN SubSeq(ALM_QUESTIONS[context.current_stage], 2, 3)
    ELSE <<>>

\* SuggestionGenerator.generate_suggestions(context) on the generator
\* `self`: the generator it leaves and the dict it returns (its list of
\* positive phrases left out).  analysis['stage'] is a subscript: it raises
\* KeyError when the key is missing, and the except clause returns an error.
SuggestionGenerator_generate_suggestions(self, context) ==
    LET r == AnalyzeSpeech(self.analyzer, context.last_segment,
                           SegmentSpeaker[context.last_segment])
        analysis == r.ret
        staged == [context EXCEPT !.current_stage = analysis.stage]
    IN  [self |-> [self EXCEPT !.analyzer = r.self],
         value |->
            IF "stage" \notin DOMAIN analysis
            THEN [status |-> "error", error |-> "'stage'"]
            ELSE [status |-> "success",
                  primary_suggestion |-> _get_primary_suggestion(analysis, staged),
                  alternative_suggestions |->
                      _get_alternative_suggestions(analysis, staged),
                  warnings |-> IF "warnings" \in DOMAIN analysis
                               THEN analysis.warnings ELSE <<>>,
                  stage |-> staged.current_stage,
                  progress |-> get_alm_progress(r.self)]]

\* ConnectionManager.disconnect(client_id): the connection of the client is
\* closed and forgotten
ManagerDisconnect(connections, ends, client_id) ==
    IF client_id \in DOMAIN connections
    THEN [active_connections |-> Deleted(connections, client_id),
          endpoints |-> [w \in DOMAIN ends |->
                            IF w = connections[client_id] /\ ends[w].status = "open"
                            THEN [ends[w] EXCEPT !.status = "closed"]
                            ELSE ends[w]]]
    ELSE [active_connections |-> connections, endpoints |-> ends]

\* ConnectionManager.send_message(message, client_id): nothing is sent to a
\* client that is not connected; `delivered`: send_json returned, otherwise
\* it raised and the client is disconnected
SendMessage(connections, ends, log, message, client_id, delivered) ==
    IF client_id \notin DOMAIN connections
    THEN [active_connections |-> connections, endpoints |-> ends, sent |-> log]
    ELSE IF delivered
    THEN [active_connections |-> connections, endpoints |-> ends,
          sent |-> Append(log, [to |-> connections[client_id]] @@ message)]
    ELSE [sent |-> log] @@ ManagerDisconnect(connections, ends, client_id)

\* the most speech chunks received
MaxSpeech == 2

InitService ==
    /\ active_connections = [c \in {} |-> None]
    /\ conversation_history = [c \in {} |-> <<>>]
    /\ suggestion_generator = [analyzer |-> ConversationAnalyzer]
    /\ endpoints = [w \in {} |-> [client_id |-> None, status |-> "open"]]
    /\ background = <<>>
    /\ sent = <<>>

\* websocket_endpoint up to its loop: manager.connect and a new history
websocket_connect(websocket, client_id) ==
    /\ websocket \notin DOMAIN endpoints
    /\ active_connections' = Stored(active_connections, client_id, websocket)
    /\ conversation_history' = Stored(conversation_history, client_id, <<>>)
    /\ endpoints' = Stored(endpoints, websocket,
                           [client_id |-> client_id, status |-> "open"])
    /\ UNCHANGED <<suggestion_generator, background, sent, serviceFrame>>

\* one round of the loop of websocket_endpoint: a chunk with speech is
\* received, process_speech is added for it, the keepalive is sent
websocket_receive(websocket, text, delivered) ==
    /\ websocket \in DOMAIN endpoints
    /\ endpoints[websocket].status = "open"
    /\ Len(background) < MaxSpeech
    /\ LET client_id == endpoints[websocket].client_id
           kept == SendMessage(active_connections, endpoints, sent,
                               [type |-> "keepalive"], client_id, delivered)
       IN  /\ background' = Append(background,
                                   [client_id |-> client_id, websocket |-> websocket,
                                    text |-> text, pc |-> "transcribing",
                                    suggestions |-> None])
           /\ active_connections' = kept.active_connections
           /\ endpoints' = kept.endpoints
    /\ UNCHANGED <<conversation_history, suggestion_generator, sent, serviceFrame>>

\* WebSocketDisconnect in the loop: handle_disconnect(client_id)
websocket_disconnect(websocket) ==
    /\ websocket \in DOMAIN endpoints
    /\ endpoints[websocket].status # "ended"
    /\ LET client_id == endpoints[websocket].client_id
           gone == ManagerDisconnect(active_connections, endpoints, client_id)
       IN  /\ active_connections' = gone.active_connections
           /\ endpoints' = [gone.endpoints EXCEPT ![websocket].status = "ended"]
           /\ conversation_history' =
                  IF client_id \in DOMAIN conversation_history
                  THEN Deleted(conversation_history, client_id)
                  ELSE conversation_history
    /\ UNCHANGED <<suggestion_generator, background, sent, serviceFrame>>

\* process_speech from the return of transcribe_audio to its first send:
\* the history is appended to, the suggestions are generated, the
\* transcription is sent.  A missing history raises KeyError and the except
\* clause sends an error message.
process_speech(i, status, delivered) ==
    /\ i \in DOMAIN background
    /\ background[i].pc = "transcribing"
    /\ LET task == background[i]
           client_id == task.client_id
       IN  IF status # "success"
           THEN /\ background' = [background EXCEPT ![i].pc = "done"]
                /\ UNCHANGED <<active_connections, conversation_history,
                               suggestion_generator, endpoints, sent>>
           ELSE IF client_id \notin DOMAIN conversation_history
           THEN LET out == SendMessage(active_connections, endpoints, sent,
                                       [type |-> "error", text |-> task.text,
                                        from |-> task.websocket],
                                       client_id, delivered)
                IN  /\ background' = [background EXCEPT ![i].pc = "done"]
                    /\ active_connections' = out.active_connections
                    /\ endpoints' = out.endpoints
                    /\ sent' = out.sent
                    /\ UNCHANGED <<conversation_history, suggestion_generator>>
           ELSE LET history == Append(conversation_history[client_id], task.text)
                    context == ConversationContext(history, task.text)
                    suggestions == SuggestionGenerator_generate_suggestions(
                                       suggestion_generator, context)
                    out == SendMessage(active_connections, endpoints, sent,
                                       [type |-> "transcription", text |-> task.text,
                                        from |-> task.websocket],
                                       client_id, delivered)
                IN  /\ conversation_history' =
                           Stored(conversation_history, client_id, history)
                    /\ suggestion_generator' = suggestions.self
                    /\ background' = [background EXCEPT
                                         ![i].pc = "send_suggestion",
                                         ![i].suggestions = suggestions.value]
                    /\ active_connections' = out.active_connections
                    /\ endpoints' = out.endpoints
                    /\ sent' = out.sent
    /\ UNCHANGED serviceFrame

\* process_speech after its first send: the suggestions are sent
process_speech_send_suggestions(i, delivered) ==
    /\ i \in DOMAIN background
    /\ background[i].pc = "send_suggestion"
    /\ LET task == background[i]
           out == SendMessage(active_connections, endpoints, sent,
                              [type |-> "suggestion", text |-> task.text,
                               from |-> task.websocket],
                              task.client_id, delivered)
       IN  /\ background' = [background EXCEPT ![i].pc = "done"]
           /\ active_connections' = out.active_connections
           /\ endpoints' = out.endpoints
           /\ sent' = out.sent
    /\ UNCHANGED <<conversation_history, suggestion_generator, serviceFrame>>

NextService ==
    \/ \E websocket \in WebSockets, client_id \in ClientIds :
            websocket_connect(websocket, client_id)
    \/ \E websocket \in WebSockets, text \in Segments, delivered \in BOOLEAN :
            websocket_receive(websocket, text, delivered)
    \/ \E websocket \in WebSockets : websocket_disconnect(websocket)
    \/ \E i \in 1..MaxSpeech, status \in TranscriptionStatus, delivered \in BOOLEAN :
            process_speech(i, status, delivered)
    \/ \E i \in 1..MaxSpeech, delivered \in BOOLEAN :
            process_speech_send_suggestions(i, delivered)

(***************************************************************************)
(* backend/app/services/alm_manager.py: analyze_response.  ALMStage.copy() *)
(* is the shallow copy of pydantic: the copy is a new object whose          *)
(* appointment, location and motivation are the very dicts of the input.    *)
(***************************************************************************)
\* ALMStage(): the model with its defaults
ALMStage ==
    [appointment |-> [secured |-> FALSE, date_time |-> None, type |-> None,
                      multiple_properties |-> FALSE],
     location |-> [discussed |-> FALSE, preferences |-> <<>>,
                   other_properties |-> FALSE],
     motivation |-> [discussed |-> FALSE, interests |-> <<>>,
                     search_duration |-> None],
     current_priority |-> "appointment"]

\* what the customer may answer
Responses ==
    { Str(ws) : ws \in {
        <<"hello">>,
        <<"yes", "tomorrow", "works">>,
        <<"what", "time">>,
        <<"I", "like", "this", "area">>,
        <<"because", "we", "need", "more", "space">>,
        <<"we", "are", "looking", "for", "a", "home">> } }

\* any(indicator in response.lower() for indicator in indicators)
AnyIndicator(indicators, response) ==
    \E i \in DOMAIN indicators : In(indicators[i], lower(response))

_check_appointment_commitment(response) ==
    AnyIndicator(<<Str(<<"yes">>), Str(<<"sure">>), Str(<<"okay">>), Str(<<"tomorrow">>),
                   Str(<<"morning">>), Str(<<"afternoon">>), Str(<<"time">>)>>, response)

_check_location_discussion(response) ==
    AnyIndicator(<<Str(<<"area">>), Str(<<"neighborhood">>), Str(<<"location">>),
                   Str(<<"other", "properties">>), Str(<<"looking">>)>>, response)

_check_motivation_discussion(response) ==
    AnyIndicator(<<Str(<<"because">>), Str(<<"interested">>), Str(<<"looking", "for">>),
                   Str(<<"need">>), Str(<<"want">>)>>, response)

\* what each response is taken for
Checked ==
    [response \in Responses |->
        [appointment |-> _check_appointment_commitment(response),
         location    |-> _check_location_discussion(response),
         motivation  |-> _check_motivation_discussion(response)]]

\* mutant: three `if` statements instead of the if/elif chain
ALMManager_analyze_response_each_phase(response, alm_stage) ==
    LET found == Checked[response]
        a == IF ~ alm_stage.appointment.secured /\ found.appointment
             THEN [alm_stage EXCEPT !.appointment.secured = TRUE,
                                    !.current_priority = "location"]
             ELSE alm_stage
        l == IF ~ a.location.discussed /\ found.location
             THEN [a EXCEPT !.location.discussed = TRUE,
                            !.current_priority = "motivation"]
             ELSE a
        m == IF ~ l.motivation.discussed /\ found.motivation
             THEN [l EXCEPT !.motivation.discussed = TRUE]
             ELSE l
    IN  [updated_stage |-> m,
         next_steps |-> (IF a # alm_stage THEN <<"Secure appointment details">> ELSE <<>>)
                        \o (IF l # a THEN <<"Note location preferences">> ELSE <<>>)
                        \o (IF m # l THEN <<"Complete ALM process">> ELSE <<>>),
         alm_stage |-> [m EXCEPT !.current_priority = alm_stage.current_priority]]

\* ALMManager.analyze_response(response, alm_stage): the tuple returned,
\* and alm_stage, the object passed in, as the call leaves it: its dicts are
\* the dicts of updated_stage, its current_priority is its own
ALMManager_analyze_response(response, alm_stage) ==
    LET found == Checked[response]
        updated_stage ==
            IF ~ alm_stage.appointment.secured
            THEN IF found.appointment
                 THEN [alm_stage EXCEPT !.appointment.secured = TRUE,
                                        !.current_priority = "location"]
                 ELSE alm_stage
            ELSE IF ~ alm_stage.location.discussed
            THEN IF found.location
                 THEN [alm_stage EXCEPT !.location.discussed = TRUE,
                                        !.current_priority = "motivation"]
                 ELSE alm_stage
            ELSE IF ~ alm_stage.motivation.discussed
            THEN IF found.motivation
                 THEN [alm_stage EXCEPT !.motivation.discussed = TRUE]
                 ELSE alm_stage
            ELSE alm_stage
        next_steps ==
            IF updated_stage = alm_stage THEN <<>>
            ELSE IF ~ alm_stage.appointment.secured THEN <<"Secure appointment details">>
            ELSE IF ~ alm_stage.location.discussed THEN <<"Note location preferences">>
            ELSE <<"Complete ALM process">>
    IN  [updated_stage |-> updated_stage,
         next_steps |-> next_steps,
         alm_stage |-> [updated_stage EXCEPT
                            !.current_priority = alm_stage.current_priority]]

\* no analyze_response call made yet: the stage a conversation starts with
NotAnalyzed ==
    [response |-> None, passed |-> ALMStage, alm_stage |-> ALMStage,
     updated_stage |-> ALMStage, next_steps |-> <<>>]

InitManager == analyzed = NotAnalyzed

\* ALMManager.analyze_response applied to the stage the previous call
\* returned; `passed` is the value of the argument when the call was made
analyze_response(response) ==
    /\ analyzed' = [response |-> response, passed |-> analyzed.updated_stage]
                      @@ ALMManager_analyze_response(response, analyzed.updated_stage)
    /\ UNCHANGED managerFrame

NextManager ==
    \/ \E response \in Responses : analyze_response(response)
    \/ \E property_available \in BOOLEAN :
            alm_manager_get_next_question(analyzed.updated_stage, property_available)

(***************************************************************************)
(* backend/app/core/websocket_manager.py.  A Connection is an object: it   *)
(* is known by its place in connection_objects, and connect starts one     *)
(* _process_message_queue task with it, kept at the same place in          *)
(* queue_tasks.  A message is known by the number under which send_message *)
(* accepted it; accepted keeps, for each, the client and the Connection it  *)
(* was queued for, whether it is a keepalive, and how the send_json that   *)
(* took it ended (None while it is queued).  send_json hands the message   *)
(* to the websocket when it is called and returns, or raises, later.       *)
(***************************************************************************)
\* the most messages send_message accepts
MaxAccepted == 3

\* how `await connection.websocket.send_json(message)` ends
SendOutcomes == {"sent", "WebSocketDisconnect", "Exception"}

InitConnections ==
    /\ connection_objects = <<>>
    /\ manager_connections = [c \in {} |-> 0]
    /\ queue_tasks = <<>>
    /\ accepted = <<>>
    /\ written = [w \in WebSockets |-> <<>>]

\* `await connection.message_queue.put(message)` on the connection stored
\* for the client: the message gets the next number
Put(objects, connection, n) ==
    [objects EXCEPT ![connection].message_queue = Append(@, n)]

\* ConnectionManager.disconnect(client_id): the connection stored for the
\* client is marked and forgotten
ManagerDisconnected(objects, stored, client_id) ==
    IF client_id \in DOMAIN stored
    THEN [connection_objects |-> [objects EXCEPT ![stored[client_id]].state = "disconnected"],
          manager_connections |-> Deleted(stored, client_id)]
    ELSE [connection_objects |-> objects, manager_connections |-> stored]

\* ConnectionManager.connect(websocket, client_id): the Connection is stored
\* under client_id, its task is created, the welcome message is queued
manager_connect(websocket, client_id) ==
    /\ \A i \in DOMAIN connection_objects : connection_objects[i].websocket # websocket
    /\ Len(accepted) < MaxAccepted
    /\ LET connection == Len(connection_objects) + 1
           n == Len(accepted) + 1
       IN  /\ connection_objects' =
                  Append(connection_objects,
                         [websocket |-> websocket, client_id |-> client_id,
                          state |-> "connected", message_queue |-> <<n>>])
           /\ manager_connections' = Stored(manager_connections, client_id, connection)
           /\ queue_tasks' = Append(queue_tasks,
                                    [client_id |-> client_id, pc |-> "while",
                                     connection |-> 0, message |-> 0,
                                     outcome |-> None])
           /\ accepted' = Append(accepted, [client_id |-> client_id,
                                            connection |-> connection,
                                            keepalive |-> FALSE,
                                            outcome |-> None])
    /\ UNCHANGED <<written, connectionFrame>>

\* ConnectionManager.disconnect(client_id)
manager_disconnect(client_id) ==
    /\ client_id \in DOMAIN manager_connections
    /\ LET gone == ManagerDisconnected(connection_objects, manager_connections, client_id)
       IN  /\ connection_objects' = gone.connection_objects
           /\ manager_connections' = gone.manager_connections
    /\ UNCHANGED <<queue_tasks, accepted, written, connectionFrame>>

\* ConnectionManager.send_message(message, client_id) for a client that is
\* stored; for any other client the message is not accepted
manager_send_message(client_id, keepalive) ==
    /\ client_id \in DOMAIN manager_connections
    /\ Len(accepted) < MaxAccepted
    /\ LET connection == manager_connections[client_id]
           n == Len(accepted) + 1
       IN  /\ connection_objects' = Put(connection_objects, connection, n)
           /\ accepted' = Append(accepted, [client_id |-> client_id,
                                            connection |-> connection,
                                            keepalive |-> keepalive,
                                            outcome |-> None])
    /\ UNCHANGED <<manager_connections, queue_tasks, written, connectionFrame>>

\* _process_message_queue of task t from the test of its `while` to the
\* call of send_json: the task ends when the client is not stored; else it
\* takes the connection now stored for the client and waits on its queue.
\* A task waiting in get() goes on when its own connection's queue holds a
\* message.
_process_message_queue(t, outcome) ==
    /\ t \in DOMAIN queue_tasks
    /\ LET task == queue_tasks[t]
           client_id == task.client_id
           connection == IF task.pc = "get" THEN task.connection
                         ELSE manager_connections[client_id]
           queue == connection_objects[connection].message_queue
       IN  /\ task.pc \in {"while", "get"}
           /\ IF task.pc = "while" /\ client_id \notin DOMAIN manager_connections
              THEN /\ queue_tasks' = [queue_tasks EXCEPT ![t].pc = "done"]
                   /\ UNCHANGED <<connection_objects, accepted, written>>
              ELSE IF queue = <<>>
              THEN /\ task.pc = "while"
                   /\ queue_tasks' = [queue_tasks EXCEPT ![t].pc = "get",
                                                         ![t].connection = connection]
                   /\ UNCHANGED <<connection_objects, accepted, written>>
              ELSE /\ queue_tasks' = [queue_tasks EXCEPT ![t].pc = "send_json",
                                                         ![t].connection = connection,
                                                         ![t].message = Head(queue),
                                                         ![t].outcome = outcome]
                   /\ connection_objects' =
                          [connection_objects EXCEPT ![connection].message_queue = Tail(@)]
                   /\ accepted' = [accepted EXCEPT ![Head(queue)].outcome = outcome]
                   /\ written' =
                          IF outcome = "sent"
                          THEN [written EXCEPT
                                   ![connection_objects[connection].websocket] =
                                       Append(@, Head(queue))]
                          ELSE written
    /\ UNCHANGED <<manager_connections, connectionFrame>>

\* _process_message_queue of task t from the return of send_json to the next
\* test of its `while`.  message_history[client_id] is gone with the
\* client's connection, and appending a message other than a keepalive to
\* it raises KeyError.  `delivered`:
\* the error message of the except clause could be sent.
_process_message_queue_sent(t, delivered) ==
    /\ t \in DOMAIN queue_tasks
    /\ queue_tasks[t].pc = "send_json"
    /\ LET task == queue_tasks[t]
           client_id == task.client_id
           raised == IF task.outcome # "sent" THEN task.outcome
                     ELSE IF /\ ~accepted[task.message].keepalive
                             /\ client_id \notin DOMAIN manager_connections
                          THEN "Exception"
                     ELSE None
           gone == ManagerDisconnected(connection_objects, manager_connections, client_id)
           failed == [connection_objects EXCEPT ![task.connection].state = "error"]
       IN  IF raised = None
           THEN /\ queue_tasks' = [queue_tasks EXCEPT ![t].pc = "while"]
                /\ UNCHANGED <<connection_objects, manager_connections>>
           ELSE IF raised = "WebSocketDisconnect"
           THEN /\ queue_tasks' = [queue_tasks EXCEPT ![t].pc = "done"]
                /\ connection_objects' = gone.connection_objects
                /\ manager_connections' = gone.manager_connections
           ELSE IF delivered
           THEN /\ queue_tasks' = [queue_tasks EXCEPT ![t].pc = "while"]
                /\ connection_objects' = failed
                /\ UNCHANGED manager_connections
           ELSE LET last == ManagerDisconnected(failed, manager_connections, client_id)
                IN  /\ queue_tasks' = [queue_tasks EXCEPT ![t].pc = "done"]
                    /\ connection_objects' = last.connection_objects
                    /\ manager_connections' = last.manager_connections
    /\ UNCHANGED <<accepted, written, connectionFrame>>

\* the steps of the queue task of the t-th connection
QueueTask(t) ==
    \/ \E outcome \in SendOutcomes : _process_message_queue(t, outcome)
    \/ \E delivered \in BOOLEAN : _process_message_queue_sent(t, delivered)

NextConnections ==
    \/ \E websocket \in WebSockets, client_id \in ClientIds :
            manager_connect(websocket, client_id)
    \/ \E client_id \in ClientIds : manager_disconnect(client_id)
    \/ \E client_id \in ClientIds, keepalive \in BOOLEAN :
            manager_send_message(client_id, keepalive)
    \/ \E t \in 1..Cardinality(WebSockets) : QueueTask(t)

(***************************************************************************)
(* AIService.analyze_conversation.  A Python value is kept with its type:  *)
(* a str or a list as the sequence in `value`, None and a key that is      *)
(* missing from a dict with an empty `value`.                              *)
(***************************************************************************)
PyStr(s) == [type |-> "str", value |-> s]
PyList(l) == [type |-> "list", value |-> l]
PyNone == [type |-> "NoneType", value |-> <<>>]
Missing == [type |-> "missing", value |-> <<>>]

\* str.lstrip() of spaces
RECURSIVE lstrip(_)
lstrip(chars) ==
    IF chars # <<>> /\ chars[1] = " " THEN lstrip(Tail(chars)) ELSE chars

\* str.strip() of spaces
str_strip(chars) == rstrip(lstrip(chars), {" "})

\* the transcripts passed: None, "", a list, a short str, a str that is
\* short without its padding, a transcript
AnalysisTranscripts ==
    {PyNone, PyStr(<<>>), PyList(<<"hello">>), PyStr(Str(<<"hello">>)),
     PyStr(<<" ", " ", " ", " ">> \o Str(<<"hello">>) \o <<" ", " ", " ", " ">>),
     PyStr(Str(<<"we", "are", "looking", "for", "a", "home">>))}

\* what `await client.chat.completions.create(...)` comes to: a response
\* with content, a response without, an openai.OpenAIError, any other
\* exception
AnalysisOutcomes == {"content", "no_content", "OpenAIError", "Exception"}

required_fields ==
    {"stage", "objections", "interest_level", "needs", "topics", "next_actions"}
valid_stages == {"initial", "qualification", "objection", "closing"}
valid_interest_levels == {"high", "medium", "low"}

\* json.loads of the content fails
Undecodable ==
    [json |-> "JSONDecodeError", stage |-> Missing, objections |-> Missing,
     interest_level |-> Missing, needs |-> Missing, topics |-> Missing,
     next_actions |-> Missing]

\* the contents the LLM answers with: text that is not JSON, a JSON number,
\* a JSON array, and JSON objects with these values under the six keys
Contents ==
    {Undecodable, [Undecodable EXCEPT !.json = "int"],
     [Undecodable EXCEPT !.json = "list"]}
    \cup [json : {"dict"},
          stage : {PyStr(<<"initial">>), PyStr(<<"discovery">>),
                   PyList(<<"initial">>), Missing},
          objections : {PyList(<<"price">>), PyStr(<<"price">>), Missing},
          interest_level : {PyStr(<<"high">>), PyStr(<<"very high">>), PyNone},
          needs : {PyList(<<"garage">>), PyNone},
          topics : {PyList(<<"schools">>), PyStr(<<"schools">>)},
          next_actions : {PyNone}]

\* the LLM call of one attempt: how it ends, what handle_openai_error does
\* with an OpenAIError, and the content of a response that has one
LLMCalls ==
    [llm : {"OpenAIError"}, handled : OpenAIErrorHandled, content : {Undecodable}]
    \cup [llm : {"no_content", "Exception"}, handled : {None}, content : {Undecodable}]
    \cup [llm : {"content"}, handled : {None}, content : Contents]

\* `if not isinstance(analysis[field], list): analysis[field] = []`
AsList(v) == IF v.type = "list" THEN v ELSE PyList(<<>>)

\* `if analysis[field] not in valid: analysis[field] = 'unknown'`; testing a
\* list for membership in a set raises TypeError
AsOneOf(v, valid) ==
    IF v.type = "str" /\ v.value[1] \in valid THEN v ELSE PyStr(<<"unknown">>)

\* the inner `try` of analyze_conversation on the content of the response:
\* the dict returned, or the exception raised
Parsed(content) ==
    LET e == Name("ConversationAnalysisError")
    IN  IF content.json = "JSONDecodeError" THEN [value |-> None, raised |-> e]
        ELSE IF content.json = "int" THEN [value |-> None, raised |-> e]
        ELSE IF \E field \in required_fields :
                    content.json = "list" \/ content[field] = Missing
        THEN [value |-> None, raised |-> e]
        ELSE IF content.stage.type = "list" THEN [value |-> None, raised |-> e]
        ELSE [value |-> [status |-> "success",
                         stage |-> AsOneOf(content.stage, valid_stages),
                         objections |-> AsList(content.objections),
                         interest_level |-> AsOneOf(content.interest_level,
                                                    valid_interest_levels),
                         needs |-> AsList(content.needs),
                         topics |-> AsList(content.topics),
                         next_actions |-> AsList(content.next_actions)],
              raised |-> None]

\* the statements of analyze_conversation inside its outer `try`
AnalysisTryBlock(transcript, llm, handled, content) ==
    IF transcript.type = "NoneType" \/ transcript.value = <<>> \/ transcript.type # "str"
    THEN [value |-> None, raised |-> Name("ValidationError")]
    ELSE IF Len(str_strip(transcript.value)) < 10
    THEN [value |-> None, raised |-> Name("ValidationError")]
    ELSE IF llm = "OpenAIError" THEN [value |-> None, raised |-> handled]
    ELSE IF llm = "Exception"
    THEN [value |-> None, raised |-> Name("ConversationAnalysisError")]
    ELSE IF llm = "no_content"
    THEN [value |-> None, raised |-> Name("ConversationAnalysisError")]
    ELSE Parsed(content)

\* the dict both handlers of analyze_conversation return
ErrorEnvelope ==
    [status |-> "error", stage |-> PyStr(<<"unknown">>), objections |-> PyList(<<>>),
     interest_level |-> PyStr(<<"unknown">>), needs |-> PyList(<<>>),
     topics |-> PyList(<<>>), next_actions |-> PyList(<<"Retry analysis">>)]

\* one run of the body of analyze_conversation: the try block, then
\* `except AIAssistantError as e: return {...}` and
\* `except Exception as e: return {...}`.  The name in the first clause is
\* evaluated when an exception reaches it.
AnalysisBody(transcript, llm, handled, content) ==
    LET tried == AnalysisTryBlock(transcript, llm, handled, content)
    IN  IF tried.raised = None THEN tried @@ [llm |-> llm]
        ELSE IF Name("AIAssistantError") = "NameError"
        THEN [value |-> None, raised |-> "NameError", llm |-> llm]
        ELSE [value |-> ErrorEnvelope, raised |-> None, llm |-> llm]

\* no call of analyze_conversation made yet
NotAnalyzedYet == NoAICall @@ [content |-> Undecodable, cause |-> None]

InitAnalysis == analyzed_conversation = NotAnalyzedYet

\* tenacity around one run of the body, attempt n; `cause` is what the try
\* block raised
AnalysisAttempted(transcript, n, response) ==
    LET tried == AnalysisTryBlock(transcript, response.llm, response.handled,
                                  response.content)
        ran == AnalysisBody(transcript, response.llm, response.handled,
                            response.content)
    IN  [content |-> response.content, cause |-> tried.raised]
        @@ Attempted(transcript, n, 0, ran)

\* AIService.analyze_conversation(transcript): the first attempt under @retry
AIService_analyze_conversation(transcript, response) ==
    /\ analyzed_conversation.status # "sleeping"
    /\ analyzed_conversation' = AnalysisAttempted(transcript, 1, response)
    /\ UNCHANGED analysisFrame

\* tenacity runs the body again after the sleep
analysis_retry(response) ==
    /\ analyzed_conversation.status = "sleeping"
    /\ analyzed_conversation' =
           AnalysisAttempted(analyzed_conversation.request,
                             analyzed_conversation.attempt_number + 1, response)
    /\ UNCHANGED analysisFrame

NextAnalysis ==
    \/ \E transcript \in AnalysisTranscripts, response \in LLMCalls :
            AIService_analyze_conversation(transcript, response)
    \/ \E response \in LLMCalls : analysis_retry(response)

(***************************************************************************)
(* Specifications                                                          *)
(***************************************************************************)
Init ==
    /\ InitAnalyzer /\ InitCall /\ InitAI
    /\ InitOptimizer /\ InitGenerator /\ InitALM /\ InitService /\ InitManager
    /\ InitConnections
    /\ InitAnalysis

\* one ConversationAnalyzer driven by utterances
SpecAnalyzer == Init /\ [][NextAnalyzer]_vars

\* one CallHandler serving calls
SpecCall == Init /\ [][NextCall]_vars

\* AIService.generate_suggestions under its retry decorator
SpecAI == Init /\ [][NextAI]_vars

\* optimize_suggestions entered with a list of candidates and a context
InitOptimizeSuggestions ==
    /\ InitAnalyzer /\ InitCall /\ InitAI /\ InitGenerator /\ InitALM /\ InitService /\ InitManager
    /\ InitConnections
    /\ InitAnalysis
    /\ \E suggestions \in CandidateLists, context \in Contexts :
            optimized = Called(suggestions, context)

\* one call of SuggestionOptimizer.optimize_suggestions
SpecOptimizer == InitOptimizeSuggestions /\ [][NextOptimizer]_vars

\* generate_suggestions with its suggestions pooled
InitPooled ==
    /\ InitAnalyzer /\ InitCall /\ InitAI /\ InitOptimizer /\ InitALM /\ InitService /\ InitManager
    /\ InitConnections
    /\ InitAnalysis
    /\ \E all_suggestions \in Pools :
            pooled = [NoPool EXCEPT !.status = "pooled",
                                    !.all_suggestions = all_suggestions]

\* the deduplication and ranking of one pool
SpecGenerator == InitPooled /\ [][NextGenerator]_vars

\* the ALM tracker, the ALM manager and one analyzer asked for questions
SpecALM == Init /\ [][NextALM]_vars

\* one ALMTracker and the clock
SpecTracker == Init /\ [][NextTracker]_vars

\* the websocket service: its endpoints and its process_speech tasks
SpecService == Init /\ [][NextService]_vars

\* one conversation's ALMStage under analyze_response and get_next_question
SpecManager == Init /\ [][NextManager]_vars

\* the ConnectionManager of app/core and its queue tasks; nothing makes a
\* client connect, send or disconnect
SpecConnections == Init /\ [][NextConnections]_vars

\* calls of AIService.analyze_conversation, one at a time
SpecAnalysis == Init /\ [][NextAnalysis]_vars

\* the same, with the event loop running every task that can go on
SpecConnectionsFair ==
    /\ SpecConnections
    /\ \A t \in 1..Cardinality(WebSockets) : WF_vars(QueueTask(t))

(***************************************************************************)
(* Properties of the conversation state machine                            *)
(***************************************************************************)
\* the canonical order of the stages
Rank == [opening |-> 0, appointment |-> 1, location |-> 2, motivation |-> 3, closing |-> 4]

\* the objection detected in the utterance of the latest call (None: none)
ObjectionIn(a) == Scan[a.text].objection

\* what analyze_speech(text, speaker) would do to an analyzer: the stage and
\* flags it leaves and the dict it returns
Outcome(st, objs, text, speaker) ==
    LET r == AnalyzeSpeech([state |-> st, detected_objections |-> objs], text, speaker)
    IN  <<r.self.state.stage, r.self.state.appointment_set,
          r.self.state.location_discussed, r.self.state.motivation_uncovered, r.ret>>

\* C1: the stage never moves backward in the order OPENING < APPOINTMENT <
\* LOCATION < MOTIVATION < CLOSING, and an utterance in which an objection
\* is detected leaves the stage that was active before it.
C1_StageNeverMovesBack ==
    [][ /\ state.stage \in DOMAIN Rank
        /\ state'.stage \in DOMAIN Rank
        /\ Rank[state.stage] <= Rank[state'.stage]
        /\ (ObjectionIn(arg') # None => state'.stage = state.stage) ]_vars

C1_Witness ==
    /\ arg # NoCall
    /\ ObjectionIn(arg) # None
    /\ state.stage = "motivation"

\* C2: an utterance with a detected objection returns an 'objection_handler'
\* dict carrying that objection's handler, leaves the stage and the three
\* progress flags unchanged (the stage is never OBJECTION_HANDLING), and
\* every next utterance is processed as it would have been before it.
C2_ObjectionLeavesStage ==
    [][ ObjectionIn(arg') # None =>
          /\ ret'.suggestion_type = "objection_handler"
          /\ ret'.suggestion = OBJECTION_HANDLERS[ObjectionIn(arg')]
          /\ state'.stage = state.stage
          /\ state'.stage # "objection_handling"
          /\ state'.appointment_set = state.appointment_set
          /\ state'.location_discussed = state.location_discussed
          /\ state'.motivation_uncovered = state.motivation_uncovered
          /\ \A text \in Utterances, speaker \in Speakers :
                Outcome(state', detected_objections', text, speaker)
                    = Outcome(state, detected_objections, text, speaker) ]_vars

C2_Witness ==
    /\ arg # NoCall
    /\ ObjectionIn(arg) = "listing_agent"
    /\ ret.suggestion = OBJECTION_HANDLERS.listing_agent
    /\ state.stage = "location"
    /\ state.appointment_set

\* C3: once appointment_set is true it is true in every later state,
\* whatever utterance follows.
C3_AppointmentSetStays ==
    [][ state.appointment_set => state'.appointment_set ]_vars

C3_Witness ==
    /\ state.appointment_set
    /\ state.stage = "closing"
    /\ arg # NoCall
    /\ ObjectionIn(arg) # None
    /\ arg.speaker = "agent"

\* the lowered text of a call
LoweredText(a) == Scan[a.text].lower

\* a self-introduction with a brokerage mention, as the opening of the
\* scripts has it: "this is ... Realty" or "this is ... real estate"
IntroducesWithBrokerage(text) ==
    /\ In(Str(<<"this", "is">>), text)
    /\ In(Str(<<"realty">>), text) \/ In(Str(<<"real", "estate">>), text)

\* C4: in OPENING an agent utterance with no detected objection that holds
\* a self-introduction and a brokerage mention moves the stage to
\* APPOINTMENT and returns an 'alm_question'; no other utterance moves the
\* stage out of OPENING.
C4_OpeningAdvancesOnIntroduction ==
    [][ state.stage = "opening" =>
          IF /\ arg'.speaker = "agent"
             /\ ObjectionIn(arg') = None
             /\ IntroducesWithBrokerage(LoweredText(arg'))
          THEN /\ state'.stage = "appointment"
               /\ ret'.suggestion_type = "alm_question"
          ELSE state'.stage = "opening" ]_vars

C4_Witness ==
    /\ arg = [text |-> Str(<<"this", "is", "Mike", "with", "ABC", "Realty">>),
              speaker |-> "agent"]
    /\ state.stage = "appointment"
    /\ ret.suggestion_type = "alm_question"
    /\ ~state.appointment_set

\* the keywords the specification lists for the appointment commitment
ListedCommitmentKeywords ==
    {Str(<<"yes">>), Str(<<"sure">>), Str(<<"okay">>), Str(<<"tomorrow">>),
     Str(<<"morning">>), Str(<<"afternoon">>), Str(<<"time">>)}

\* the keywords the analyzer looks for
AnalyzerCommitmentKeywords ==
    {Str(<<"yes">>), Str(<<"sure">>), Str(<<"okay">>), Str(<<"tomorrow">>),
     Str(<<"available">>)}

\* in APPOINTMENT, a client utterance with no objection and one of `keywords`
\* sets appointment_set and moves to LOCATION; every other utterance leaves
\* stage and appointment_set as they are
AppointmentGate(keywords) ==
    state.stage = "appointment" =>
       IF /\ arg'.speaker = "client"
          /\ ObjectionIn(arg') = None
          /\ \E k \in keywords : In(k, LoweredText(arg'))
       THEN /\ state'.appointment_set
            /\ state'.stage = "location"
       ELSE /\ state'.stage = state.stage
            /\ state'.appointment_set = state.appointment_set

\* C5 as stated: the keywords are yes, sure, okay, tomorrow, morning,
\* afternoon, time.
C5_AsStated == [][ AppointmentGate(ListedCommitmentKeywords) ]_vars

\* C5 amended: in APPOINTMENT a client utterance with no detected objection
\* that contains one of yes, sure, okay, tomorrow, available sets
\* appointment_set and moves to LOCATION; a client utterance with none of
\* them, and every agent utterance, leaves stage and appointment_set unchanged.
C5_AppointmentKeywords == [][ AppointmentGate(AnalyzerCommitmentKeywords) ]_vars

C5_Witness ==
    /\ arg = [text |-> Str(<<"I", "am", "available">>), speaker |-> "client"]
    /\ state.stage = "location"
    /\ state.appointment_set
    /\ ~state.location_discussed

\* C6: in LOCATION every client utterance with no detected objection sets
\* location_discussed and moves to MOTIVATION; in MOTIVATION every such
\* utterance sets motivation_uncovered and moves to CLOSING; an agent
\* utterance advances neither stage.
C6_AnyClientReplyAdvances ==
    [][ /\ state.stage = "location" =>
            IF arg'.speaker = "client" /\ ObjectionIn(arg') = None
            THEN state'.location_discussed /\ state'.stage = "motivation"
            ELSE state'.stage = "location"
                 /\ state'.location_discussed = state.location_discussed
        /\ state.stage = "motivation" =>
            IF arg'.speaker = "client" /\ ObjectionIn(arg') = None
            THEN state'.motivation_uncovered /\ state'.stage = "closing"
            ELSE state'.stage = "motivation"
                 /\ state'.motivation_uncovered = state.motivation_uncovered ]_vars

C6_Witness ==
    /\ arg = [text |-> Str(<<"hello">>), speaker |-> "client"]
    /\ state.stage = "closing"
    /\ state.location_discussed
    /\ state.motivation_uncovered
    /\ ret.suggestion_type = "closing"
    /\ "next_stage" \in DOMAIN ret

\* in CLOSING no utterance changes the stage or a progress flag
ClosingIsTerminal ==
    /\ state'.stage = "closing"
    /\ state'.appointment_set = state.appointment_set
    /\ state'.location_discussed = state.location_discussed
    /\ state'.motivation_uncovered = state.motivation_uncovered

\* C7 as stated: CLOSING is terminal and every utterance received in CLOSING
\* yields a closing-category suggestion only.
C7_AsStated ==
    [][ state.stage = "closing" =>
          /\ ClosingIsTerminal
          /\ ret'.suggestion_type \in {"closing", "end_call"} ]_vars

\* C7 amended: CLOSING is terminal; an utterance received in CLOSING yields
\* the objection handler when an objection is detected in it, 'end_call'
\* when the agent says "excited to work with you", and a 'closing'
\* suggestion otherwise.
C7_ClosingIsTerminal ==
    [][ state.stage = "closing" =>
          /\ ClosingIsTerminal
          /\ ret'.suggestion_type =
                IF ObjectionIn(arg') # None THEN "objection_handler"
                ELSE IF arg'.speaker = "agent"
                        /\ In(Str(<<"excited", "to", "work", "with", "you">>),
                              LoweredText(arg'))
                     THEN "end_call"
                ELSE "closing" ]_vars

C7_Witness ==
    /\ arg.speaker = "agent"
    /\ ObjectionIn(arg) = None
    /\ state.stage = "closing"
    /\ ret.suggestion_type = "end_call"

\* C8: detected_objections only grows: an objection type detected by
\* analyze_speech is added to it and nothing is ever removed.
C8_ObjectionsOnlyGrow ==
    [][ /\ detected_objections \subseteq detected_objections'
        /\ ObjectionIn(arg') # None => ObjectionIn(arg') \in detected_objections'
        /\ detected_objections' \subseteq
              detected_objections \cup ({ObjectionIn(arg')} \ {None}) ]_vars

C8_Witness ==
    /\ detected_objections = ObjectionType
    /\ arg # NoCall
    /\ ObjectionIn(arg) = None

(***************************************************************************)
(* Properties of CallHandler                                               *)
(***************************************************************************)
\* an utterance is processed for a live call: _handle_transcript is given a
\* transcript of a connected call that differs from the call's last one
ProcessedUtterance ==
    /\ op'.name = "_handle_transcript"
    /\ op'.call_id \in DOMAIN active_calls
    /\ active_calls[op'.call_id].last_transcript # op'.text

\* C9: for every utterance processed for a live call the agent is sent a
\* response that carries at least one suggestion: no processed utterance
\* ends with nothing sent, with no suggestion, or with an error.
C9_AsStated ==
    [][ ProcessedUtterance =>
          /\ op'.raised = None
          /\ op'.sent # NoMessage
          /\ "suggestions" \in DOMAIN op'.sent
          /\ op'.sent.suggestions # "" ]_vars

(***************************************************************************)
(* Properties of AIService                                                 *)
(***************************************************************************)
\* C10: when the LLM call raises or times out during generate_suggestions
\* the call does not raise: it returns the 3 fixed fallback suggestions of
\* the request's stage, each of type 'fallback' with confidence 0.8.
C10_AsStated ==
    (call.status \in {"returned", "raised"} /\ call.llm \in LLMFailures) =>
        /\ call.status = "returned"
        /\ call.value = _get_fallback_suggestions(call.request)

(***************************************************************************)
(* Properties of SuggestionOptimizer                                       *)
(***************************************************************************)
\* C11: for every list of candidates passed to optimize_suggestions,
\* well-formed or not, with or without context signals, the returned list
\* has at most 3 entries and is non-empty whenever the input had at least
\* one candidate.
C11_AsStated ==
    optimized.status = "returned" =>
        /\ Len(optimized.returned) <= 3
        /\ (optimized.suggestions # <<>> => optimized.returned # <<>>)

(***************************************************************************)
(* Properties of SuggestionGenerator's deduplication                       *)
(***************************************************************************)
\* the token-set Jaccard similarity of two texts is greater than 0.8
JaccardAbove(text1, text2) ==
    5 * Cardinality(Tokens(text1) \cap Tokens(text2))
        > 4 * Cardinality(Tokens(text1) \cup Tokens(text2))

\* s is t with some entries left out
RECURSIVE IsSubSeq(_, _)
IsSubSeq(s, t) ==
    IF s = <<>> THEN TRUE
    ELSE IF t = <<>> THEN FALSE
    ELSE IF Head(s) = Head(t) THEN IsSubSeq(Tail(s), Tail(t))
    ELSE IsSubSeq(s, Tail(t))

\* how often x occurs in s
Occurrences(x, s) == Cardinality({i \in DOMAIN s : s[i] = x})

\* C12: after deduplication no two surviving candidates have token-set
\* Jaccard similarity greater than 0.8, and a candidate is dropped only if
\* it is that similar to a survivor.
C12_NoTwoSimilarSurvive ==
    pooled.status = "returned" =>
        LET all == pooled.all_suggestions
            unique == pooled.unique_suggestions
        IN  /\ IsSubSeq(unique, all)
            /\ \A i, j \in DOMAIN unique :
                   i # j => ~ JaccardAbove(unique[i].text, unique[j].text)
            /\ \A i \in DOMAIN all :
                   Occurrences(all[i], unique) < Occurrences(all[i], all)
                       => \E k \in DOMAIN unique :
                              JaccardAbove(all[i].text, unique[k].text)

\* a pool of three of which one is dropped and two, which share words, survive
C12_Witness ==
    /\ pooled.status = "returned"
    /\ Len(pooled.all_suggestions) = 3
    /\ Len(pooled.unique_suggestions) = 2
    /\ Tokens(pooled.unique_suggestions[1].text)
          \cap Tokens(pooled.unique_suggestions[2].text) # {}

\* C13: when two pooled candidates have Jaccard similarity greater than 0.8
\* the one dropped is the lower-ranked of the two: a dropped candidate has a
\* survivor that similar to it which the ranking key (confidence, then
\* shorter text) does not place below it.
C13_AsStated ==
    pooled.status = "returned" =>
        LET all == pooled.all_suggestions
            unique == pooled.unique_suggestions
        IN  \A i \in DOMAIN all :
                Occurrences(all[i], unique) < Occurrences(all[i], all)
                    => \E k \in DOMAIN unique :
                           /\ JaccardAbove(all[i].text, unique[k].text)
                           /\ KeyAtLeast(unique[k], all[i])

\* the entries of the returned list are scored suggestions
ReturnedScored ==
    /\ optimized.status = "returned"
    /\ \A i \in DOMAIN optimized.returned :
           "total_score" \in DOMAIN optimized.returned[i]

\* the total_score optimize_suggestions computes for the i-th input candidate
TotalScoreOf(i) ==
    ScoredSuggestion(optimized.suggestions[i], optimized.context).total_score

\* C14: the optimizer's output lists candidates in non-increasing
\* total_score order, and its first element is a candidate whose
\* total_score is the maximum over all input candidates.
C14_DescendingTotalScore ==
    ReturnedScored =>
        LET out == optimized.returned
        IN  /\ \A i, j \in DOMAIN out :
                   i < j => out[i].total_score >= out[j].total_score
            /\ optimized.suggestions # <<>> =>
                   /\ out # <<>>
                   /\ \E i \in DOMAIN optimized.suggestions :
                          /\ out[1] = ScoredSuggestion(optimized.suggestions[i],
                                                       optimized.context)
                          /\ \A j \in DOMAIN optimized.suggestions :
                                 TotalScoreOf(j) <= out[1].total_score

\* three candidates returned with falling scores, the best of them not the
\* first of the input
C14_Witness ==
    /\ ReturnedScored
    /\ Len(optimized.returned) = 3
    /\ optimized.returned[1].total_score > optimized.returned[2].total_score
    /\ optimized.returned[2].total_score > optimized.returned[3].total_score
    /\ TotalScoreOf(1) < optimized.returned[1].total_score

\* _adjust_suggestions returned its final list
Adjusted == optimized.status = "returned" /\ ~ optimized.raised

\* the category of the i-th entry of the final list
FinalCategory(i) == CategoryOf[optimized.returned[i].text]

\* C15: in the optimizer's final list no category appears more than 2
\* times; a third entry is admitted only if its category differs from every
\* category already in the list.
C15_CategoryVariety ==
    Adjusted =>
        /\ \A c \in {"question", "appointment", "market_info", "empathy", "other"} :
               Cardinality({i \in DOMAIN optimized.returned : FinalCategory(i) = c}) <= 2
        /\ \A i \in DOMAIN optimized.returned :
               i >= 3 => \A j \in 1..(i - 1) : FinalCategory(j) # FinalCategory(i)

\* two entries of one category, a third of another, and a candidate of the
\* first category passed over on the way to the third
C15_Witness ==
    /\ Adjusted
    /\ Len(optimized.returned) = 3
    /\ FinalCategory(1) = FinalCategory(2)
    /\ Len(optimized.suggestions) = 4
    /\ Cardinality({i \in DOMAIN optimized.suggestions :
                      /\ "text" \in DOMAIN optimized.suggestions[i]
                      /\ CategoryOf[optimized.suggestions[i].text] = FinalCategory(1)}) = 3

\* the scores optimize_suggestions computes for the i-th input candidate
ScoresOf(i) == Scores(optimized.suggestions[i], optimized.context)

\* the context carries no signal at all
NoSignals ==
    /\ DOMAIN optimized.context = {"objections"}
    /\ optimized.context.objections = <<>>

\* a scored suggestion without what the scoring added
Unscored(s) == [k \in DOMAIN s \ {"optimization_scores", "total_score"} |-> s[k]]

\* C16: for each of the five scoring axes, when its external signal is
\* absent (no market insights, no voice metrics, no conversation dynamics, no
\* objections) the axis score is exactly 0.5 for every candidate and no error
\* is raised; with every signal absent each candidate's total_score is 0.5
\* and the candidates keep their input order.
C16_NeutralWithoutSignal ==
    optimized.status = "returned" =>
        /\ \A i \in DOMAIN optimized.suggestions :
              /\ "market_insights" \notin DOMAIN optimized.context =>
                     /\ ScoresOf(i).market_relevance = Half
                     /\ ScoresOf(i).urgency = Half
              /\ "voice_metrics" \notin DOMAIN optimized.context =>
                     ScoresOf(i).emotional_match = Half
              /\ "conversation_dynamics" \notin DOMAIN optimized.context =>
                     ScoresOf(i).engagement = Half
              /\ optimized.context.objections = <<>> =>
                     ScoresOf(i).objection_handling = Half
        /\ NoSignals =>
              /\ Len(optimized.scored) = Len(optimized.suggestions)
              /\ \A i \in DOMAIN optimized.scored :
                     /\ optimized.scored[i].total_score * 2 = One * 100
                     /\ Unscored(optimized.scored[i]) = optimized.suggestions[i]
              /\ IsSubSeq([i \in DOMAIN optimized.returned |->
                              Unscored(optimized.returned[i])],
                          optimized.suggestions)

\* four candidates, one of them without a text, scored without any signal
\* and three of them returned
C16_Witness ==
    /\ optimized.status = "returned"
    /\ NoSignals
    /\ Len(optimized.suggestions) = 4
    /\ \E i \in DOMAIN optimized.suggestions :
           "text" \notin DOMAIN optimized.suggestions[i]
    /\ optimized.suggestions[1] # optimized.suggestions[2]
    /\ ~ optimized.raised
    /\ Len(optimized.returned) = 3

(***************************************************************************)
(* Properties of ConversationAnalyzer's warnings                           *)
(***************************************************************************)
\* C17: for every stage and every speaker, when the utterance contains a
\* phrase from AVOID_PHRASES the dictionary returned by analyze_speech
\* carries a non-empty 'warnings' list naming that phrase.
C17_AsStated ==
    arg # NoCall =>
        \A i \in DOMAIN AVOID_PHRASES :
            In(AVOID_PHRASES[i], arg.text) =>
                /\ "warnings" \in DOMAIN ret
                /\ \E k \in DOMAIN ret.warnings :
                       ret.warnings[k][2] = AVOID_PHRASES[i]

(***************************************************************************)
(* Properties of the qualification tracking and of the next question       *)
(***************************************************************************)
\* analyze_conversation returned an ALMStatus
Analyzed == tracked.transcript # None /\ tracked.raised = None

\* the fields of the returned status that hold a value
Present == {c \in {"area", "location_needs", "money"} : tracked[c].value # None}

\* C18: after every qualification analysis completion_percentage equals
\* (number of the fields area, location_needs, money that hold a value)/3,
\* missing_elements is exactly the set of fields without a value, and
\* is_qualified is true if and only if all three fields hold a value.
C18_CompletionOfThree ==
    Analyzed =>
        /\ tracked.completion_percentage * 3 = Cardinality(Present) * One
        /\ {tracked.missing_elements[i] : i \in DOMAIN tracked.missing_elements}
              = {"area", "location_needs", "money"} \ Present
        /\ Len(tracked.missing_elements) = 3 - Cardinality(Present)
        /\ tracked.is_qualified <=> Cardinality(Present) = 3

\* two of the three fields hold a value: not qualified
C18_Witness ==
    /\ Analyzed
    /\ Cardinality(Present) = 2
    /\ ~ tracked.is_qualified
    /\ Len(tracked.missing_elements) = 1

\* the fields of an ALM stage that are settled
Settled ==
    (IF asked.alm_stage.appointment.secured THEN {"appointment"} ELSE {})
        \cup (IF asked.alm_stage.location.discussed THEN {"location"} ELSE {})
        \cup (IF asked.alm_stage.motivation.discussed THEN {"motivation"} ELSE {})

\* the first field of the priority order that is not among the given ones
FirstMissing(order, given) ==
    order[CHOOSE i \in DOMAIN order :
            /\ order[i] \notin given
            /\ \A j \in 1..(i - 1) : order[j] \in given]

\* the questions of each object for a field
QuestionsFor(by, field) ==
    IF by = "ALMTracker" THEN {alm_questions[field][1]}
    ELSE IF by = "ConversationAnalyzer" THEN {ALM_QUESTIONS[field][1]}
    ELSE IF field = "appointment"
    THEN {appointment_questions.in_person[1], appointment_questions.alternative[1]}
    ELSE IF field = "location" THEN {location_questions[1]}
    ELSE {motivation_questions[1]}

\* C19: next_question returns the question of the first missing field in
\* the fixed priority order money, then area, then location_needs for
\* qualification tracking, and appointment, then location, then motivation
\* for the ALM/appointment variant, for every combination of present and
\* missing fields.
C19_FirstMissingField ==
    /\ (Analyzed /\ Cardinality(Present) < 3) =>
           tracked.next_question
               \in QuestionsFor("ALMTracker",
                                FirstMissing(<<"money", "area", "location_needs">>,
                                             Present))
    /\ (asked.by # None /\ Cardinality(Settled) < 3) =>
           asked.question
               \in QuestionsFor(asked.by,
                                FirstMissing(<<"appointment", "location", "motivation">>,
                                             Settled))

\* the tracker asks for the area with the money known, the manager for the
\* motivation with the appointment secured and the location discussed
C19_Witness ==
    /\ Analyzed
    /\ Present = {"money"}
    /\ tracked.next_question = alm_questions.area[1]
    /\ asked.by = "ALMManager"
    /\ Settled = {"appointment", "location"}
    /\ asked.question = motivation_questions[1]

\* C20 as stated: next_question returns null (no question) when all fields
\* are present, in the qualification variant and in the ALM/appointment
\* variant alike.
C20_AsStated ==
    /\ (Analyzed /\ Cardinality(Present) = 3) => tracked.next_question = None
    /\ (asked.by # None /\ Cardinality(Settled) = 3) => asked.question = None

\* C20: with all fields present the qualification tracker returns no
\* question; the ALM manager returns its appointment confirmation and the
\* analyzer the closing template of a set appointment.
C20_NullOnlyInTracker ==
    /\ (Analyzed /\ Cardinality(Present) = 3) => tracked.next_question = None
    /\ (asked.by = "ALMManager" /\ Cardinality(Settled) = 3) =>
           /\ asked.question # None
           /\ asked.question = _get_appointment_confirmation(asked.alm_stage)
    /\ (asked.by = "ConversationAnalyzer" /\ Cardinality(Settled) = 3) =>
           asked.question = CLOSING_TEMPLATES.appointment_set.template

\* the tracker has all three fields, and the analyzer, its three flags set,
\* was asked for its next question
C20_Witness ==
    /\ Analyzed
    /\ Cardinality(Present) = 3
    /\ asked.by = "ConversationAnalyzer"
    /\ Cardinality(Settled) = 3
    /\ state.motivation_uncovered

(***************************************************************************)
(* Properties of the qualification analysis and of the money values        *)
(***************************************************************************)
\* analyze_conversation was called
AnalysisCalled == tracked.transcript # None

\* the confidence analyze_conversation gives to one match of a field
DetectedConfidence(component, match) ==
    IF component = "money" /\ HasDigit(match) THEN 90 ELSE 80

\* the value it takes from one match of a field
DetectedValue(component, match) ==
    IF component = "money" /\ HasDigit(match)
    THEN _standardize_money(match).value
    ELSE match

\* C21 as stated: for each qualification field a later detection with lower
\* confidence never overwrites the value of an earlier detection with higher
\* confidence: after any sequence of detections the stored value is the one
\* that was detected with the stored (highest) confidence.
C21_AsStated ==
    AnalysisCalled =>
        \A c \in {"area", "location_needs", "money"} :
            LET matches == re_finditer[tracked.transcript][c]
            IN  matches # <<>> =>
                    /\ tracked[c].value # None
                    /\ \A i \in DOMAIN matches :
                           DetectedConfidence(c, matches[i]) <= tracked[c].confidence
                    /\ \E i \in DOMAIN matches :
                           /\ DetectedValue(c, matches[i]) = tracked[c].value
                           /\ DetectedConfidence(c, matches[i]) = tracked[c].confidence

\* C22 as stated: repeating a detection with identical category, value and
\* confidence (re-analysing the same transcript) leaves every field,
\* including its timestamp, completion_percentage and is_qualified exactly
\* as after the first time.
C22_AsStated ==
    [][(/\ Analyzed
        /\ tracked'.transcript = tracked.transcript
        /\ tracked'.raised = None)
            => tracked' = tracked]_vars

\* C23 as stated: money normalization maps '150K' to '$150,000' and '1.2M'
\* to '$1,200,000'.
C23_AsStated ==
    /\ standardized.input = "150K" => standardized.value = "$150,000"
    /\ standardized.input = "1.2M" => standardized.value = "$1,200,000"

\* C24 as stated: for every input text, including a malformed numeric money
\* token, the qualification analysis returns a status and never raises to
\* its caller.
C24_AsStated ==
    AnalysisCalled => tracked.raised = None

(***************************************************************************)
(* Properties of the sessions of CallHandler                               *)
(***************************************************************************)
\* the entries of the calls other than call_id are as they were
OthersKept(call_id) ==
    \A c \in DOMAIN active_calls \ {call_id} :
        c \in DOMAIN active_calls' /\ active_calls'[c] = active_calls[c]

Turn(call_id, text) ==
    AnalyzeSpeech(active_calls[call_id].analyzer, text, DetectedSpeaker[text]).self

\* C25, as the specification states it: no utterance delivered to a live
\* session is dropped or applied twice.  Every utterance that reaches a call
\* in active_calls, as audio or as its transcript, is applied to the
\* analyzer of the call exactly once.
C25_AsStated ==
    [][(/\ op'.name \in {"process_audio", "_handle_transcript"}
        /\ op'.call_id \in DOMAIN active_calls)
       => /\ op'.call_id \in DOMAIN active_calls'
          /\ active_calls'[op'.call_id].analyzer = Turn(op'.call_id, op'.text)]_vars

(***************************************************************************)
(* Properties of the websocket service                                     *)
(***************************************************************************)
\* the task steps in this step
Stepped(i) == i \in DOMAIN background /\ background'[i].pc # background[i].pc

\* the session the task was added for was torn down: handle_disconnect ran
TornDown(i) == endpoints[background[i].websocket].status = "ended"

\* C26, as the specification states it: the result of work in flight when
\* its session was torn down is discarded.  It changes no analyzer state and
\* no conversation history and nothing is sent to any client, also when a
\* new connection uses the client id again.
C26_AsStated ==
    [][\A i \in 1..MaxSpeech :
          (Stepped(i) /\ TornDown(i))
          => /\ suggestion_generator' = suggestion_generator
             /\ conversation_history' = conversation_history
             /\ sent' = sent]_vars

\* the stage, the progress flags and the detected objections an analyzer holds
StageState(analyzer) ==
    [stage |-> analyzer.state.stage,
     appointment_set |-> analyzer.state.appointment_set,
     location_discussed |-> analyzer.state.location_discussed,
     motivation_uncovered |-> analyzer.state.motivation_uncovered,
     detected_objections |-> analyzer.detected_objections]

\* what generate_suggestions works on for the conversation of a client: the
\* generator has one analyzer, whichever the context
ObservedBy(client_id) == StageState(suggestion_generator.analyzer)

\* C27, as the specification states it: conversations do not share stage
\* state.  An utterance analysed for one conversation leaves the stage, the
\* progress flags and the detected objections of every other conversation
\* as they were.
C27_AsStated ==
    [][\A i \in 1..MaxSpeech :
          (Stepped(i) /\ background[i].pc = "transcribing")
          => \A client_id \in DOMAIN conversation_history \ {background[i].client_id} :
                ObservedBy(client_id)' = ObservedBy(client_id)]_vars


(***************************************************************************)
(* Properties of the retries of AIService                                  *)
(***************************************************************************)
\* time passes, and tenacity runs the body again once its sleep is over
SpecAIFair ==
    /\ Init /\ [][NextAI]_vars
    /\ WF_vars(tick)
    /\ WF_vars(\E llm \in LLMOutcomes, handled \in OpenAIErrorHandled : retry(llm, handled))

\* the call sleeps after its attempt n and wakes before the clock stops
Sleeping(n) ==
    call.status = "sleeping" /\ call.attempt_number = n /\ call.wake <= MaxTime

\* C29: one invocation of generate_suggestions runs its body, and with it
\* the LLM call, at most 3 times; an attempt after the first is made only
\* when the one before it failed; and the invocation ends: a sleeping call
\* goes on to its next attempt, and after the third attempt it has returned
\* or raised.
C29_AtMostThreeAttempts ==
    /\ [](/\ call.attempt_number <= 3
          /\ call.attempt_number = 3 => call.status \in {"returned", "raised"})
    /\ [][(call'.attempt_number > 1 /\ call' # call)
          => /\ call.status = "sleeping"
             /\ call.raised # None
             /\ call'.request = call.request
             /\ call'.attempt_number = call.attempt_number + 1]_vars
    /\ Sleeping(1) ~> (call.attempt_number = 2)
    /\ Sleeping(2) ~> (call.attempt_number = 3)

\* three attempts were made and the third failed as well
C29_Witness ==
    /\ call.status = "raised"
    /\ call.attempt_number = 3
    /\ call.raised = "RetryError"


(***************************************************************************)
(* Properties of the rate limiter in AIService                             *)
(***************************************************************************)
\* generate_suggestions is called anew while the limiter has no capacity
CalledWithoutCapacity ==
    /\ call.status # "sleeping"
    /\ call' # call
    /\ ~ can_make_request(requests, now).ok

\* C30, as the specification states it: a call made while the rate limiter
\* has no capacity fails at once with the rate-limit error: the LLM is not
\* called, no request is recorded in the limiter, and the error reaches the
\* caller without a sleep or a retry in between.
C30_AsStated ==
    [][CalledWithoutCapacity
       => /\ call'.status = "raised"
          /\ call'.raised = "AIAssistantError"
          /\ call'.llm = "not_called"
          /\ requests' = can_make_request(requests, now).requests]_vars


(***************************************************************************)
(* Properties of objection detection and the speaker                       *)
(***************************************************************************)
\* C33, as the specification states it: an objection is a client utterance.
\* An agent utterance adds nothing to detected_objections, is not answered
\* with an objection handler, and still drives the transition of its stage:
\* in OPENING the agent's introduction with a brokerage moves the stage to
\* APPOINTMENT whatever else the utterance says.
C33_AsStated ==
    [][ arg'.speaker = "agent" =>
          /\ detected_objections' = detected_objections
          /\ ret'.suggestion_type # "objection_handler"
          /\ (state.stage = "opening" /\ IntroducesWithBrokerage(LoweredText(arg')))
                => state'.stage = "appointment" ]_vars


\* C34, as the specification states it: avoid-phrase detection is
\* case-insensitive over the whole table.  Whenever the utterance analysed
\* contains an entry of AVOID_PHRASES, letter case aside,
\* _check_avoid_phrases returns a warning for that entry.
C34_AsStated ==
    arg # NoCall =>
        \A i \in DOMAIN AVOID_PHRASES :
            In(lower(AVOID_PHRASES[i]), lower(arg.text)) =>
                \E k \in DOMAIN Scan[arg.text].warnings :
                    Scan[arg.text].warnings[k][2] = AVOID_PHRASES[i]


(***************************************************************************)
(* Properties of the progress flags                                        *)
(***************************************************************************)
\* the progress flags are the ones the stage stands for
FlagsOfStage(s) ==
    /\ s.appointment_set <=> s.stage \in {"location", "motivation", "closing"}
    /\ s.location_discussed <=> s.stage \in {"motivation", "closing"}
    /\ s.motivation_uncovered <=> s.stage = "closing"

\* C35: in every reachable state of the analyzer the stage determines the
\* progress flags: appointment_set holds exactly in LOCATION, MOTIVATION and
\* CLOSING, location_discussed exactly in MOTIVATION and CLOSING,
\* motivation_uncovered exactly in CLOSING; and appointment_set becomes true
\* only in a step taken from APPOINTMENT.
C35_FlagsFollowStage ==
    /\ []FlagsOfStage(state)
    /\ [][(~ state.appointment_set /\ state'.appointment_set)
          => state.stage = "appointment"]_vars

\* the location was discussed and the motivation is still to be uncovered
C35_Witness ==
    /\ state.stage = "motivation"
    /\ state.appointment_set
    /\ state.location_discussed
    /\ ~ state.motivation_uncovered
    /\ arg.speaker = "client"

\* C36: whenever the stage moves from MOTIVATION to CLOSING the closing
\* suggestion returned is the 'appointment_set' template: MOTIVATION is never
\* reached with appointment_set false, so the 'nurture_lead' template is
\* never returned.
C36_NurtureLeadUnreachable ==
    /\ [][(state.stage = "motivation" /\ state'.stage = "closing")
          => /\ state.appointment_set
             /\ ret'.suggestion = CLOSING_TEMPLATES.appointment_set.template]_vars
    /\ [](ret.suggestion_type = "closing"
            => ret.suggestion # CLOSING_TEMPLATES.nurture_lead.template)

\* the client answered in MOTIVATION and the call went to CLOSING
C36_Witness ==
    /\ state.stage = "closing"
    /\ "suggestion" \in DOMAIN ret
    /\ ret.suggestion_type = "closing"
    /\ ret.suggestion = CLOSING_TEMPLATES.appointment_set.template
    /\ "next_stage" \in DOMAIN ret
    /\ ret.next_stage = "closing"


(***************************************************************************)
(* Properties of ALMManager.analyze_response                               *)
(***************************************************************************)
\* the three phase flags of a stage, in the order of the framework
Flags(s) == <<s.appointment.secured, s.location.discussed, s.motivation.discussed>>

\* the first phase not yet completed, 'motivation' once all are
FirstOpen(s) ==
    IF ~ s.appointment.secured THEN "appointment"
    ELSE IF ~ s.location.discussed THEN "location"
    ELSE "motivation"

\* C37: over any sequence of analyze_response calls, each applied to the
\* stage the previous call returned, the phases complete in the order
\* appointment, location, motivation: location.discussed implies
\* appointment.secured, motivation.discussed implies location.discussed,
\* current_priority names the first phase not yet completed, a call flips at
\* most one flag and no flag goes back to false.
C37_PhasesInOrder ==
    /\ [](LET s == analyzed.updated_stage IN
            /\ s.location.discussed => s.appointment.secured
            /\ s.motivation.discussed => s.location.discussed
            /\ s.current_priority = FirstOpen(s))
    /\ [][LET old == Flags(analyzed.updated_stage)
              new == Flags(analyzed.updated_stage') IN
            /\ \A i \in 1..3 : old[i] => new[i]
            /\ Cardinality({i \in 1..3 : old[i] # new[i]}) <= 1]_vars

\* the third call that flipped a flag: the motivation was discussed last
C37_Witness ==
    /\ analyzed.response # None
    /\ ~ analyzed.passed.motivation.discussed
    /\ Flags(analyzed.updated_stage) = <<TRUE, TRUE, TRUE>>
    /\ analyzed.updated_stage.current_priority = "motivation"
    /\ analyzed.next_steps = <<"Complete ALM process">>

\* C38, as the specification states it: analyze_response leaves the
\* ALMStage it was given unchanged and reports every update only in the
\* stage it returns.
C38_AsStated ==
    analyzed.response # None => analyzed.alm_stage = analyzed.passed

(***************************************************************************)
(* ConnectionManager: what becomes of the messages and of the queue tasks  *)
(***************************************************************************)
\* message n was handed to send_json
Taken(n) == n <= Len(accepted) /\ accepted[n].outcome # None

\* the client message n was accepted for is not connected, or the
\* Connection it was queued for was disconnected or has failed
Dropped(n) ==
    /\ n <= Len(accepted)
    /\ \/ accepted[n].client_id \notin DOMAIN manager_connections
       \/ connection_objects[accepted[n].connection].state # "connected"

\* the queue task of the t-th connection has ended
Ended(t) == t <= Len(queue_tasks) /\ queue_tasks[t].pc = "done"

\* the messages a websocket was given are in the order accepted, none twice,
\* and each was queued for a Connection of that websocket
WrittenInOrder ==
    \A w \in WebSockets :
        /\ \A i, j \in DOMAIN written[w] : i < j => written[w][i] < written[w][j]
        /\ \A i \in DOMAIN written[w] :
               connection_objects[accepted[written[w][i]].connection].websocket = w

\* C39: for a connected client the messages send_message accepted are
\* written to the client's websocket in the order queued, each exactly once,
\* whatever the interleaving of connect, disconnect, reconnect under the same
\* client_id and the queue tasks: what a websocket was given is in order and
\* without repeats, and a message accepted for a client is handed to
\* send_json unless the client disconnects or its Connection fails
C39_AsStated ==
    /\ []WrittenInOrder
    /\ \A n \in 1..MaxAccepted :
           (n <= Len(accepted))
               ~> (Taken(n) \/ Dropped(n))

\* C40: after disconnect(client_id) the _process_message_queue task that
\* connect started for the client ends; it does not stay in get() on the
\* queue of the removed Connection
C40_AsStated ==
    \A t \in 1..Cardinality(WebSockets) :
        (t <= Len(connection_objects) /\ connection_objects[t].state = "disconnected")
            ~> Ended(t)

(***************************************************************************)
(* The rate limiter under the check-then-record protocol                   *)
(***************************************************************************)
\* the recorded requests that fall inside the last time_window at time t
InWindow(reqs, t) == {i \in DOMAIN reqs : t - reqs[i] < TimeWindow}

\* C31: whatever calls and retries of generate_suggestions have checked and
\* recorded, at every moment at most max_requests recorded requests fall
\* inside the last time_window, and can_make_request() is true once the
\* time time_until_available() gives has passed
C31_WithinLimit ==
    /\ Cardinality(InWindow(requests, now)) <= MaxRequests
    /\ can_make_request(requests, now + time_until_available(requests, now)).ok

\* a call was refused by a full limiter, which reports a wait
C31_Witness ==
    /\ call.llm = "not_called"
    /\ Cardinality(InWindow(requests, now)) = MaxRequests
    /\ time_until_available(requests, now) > 0

(***************************************************************************)
(* AIService.analyze_conversation: what a call comes to                    *)
(***************************************************************************)
\* the value returned keeps field f of the content when it is a list and
\* holds [] otherwise
ListKept(f) ==
    analyzed_conversation.value[f] =
        IF analyzed_conversation.content[f].type = "list"
        THEN analyzed_conversation.content[f]
        ELSE PyList(<<>>)

\* the value returned keeps field f of the content when it is one of
\* `valid` and holds 'unknown' otherwise
EnumKept(f, valid) ==
    analyzed_conversation.value[f] =
        IF /\ analyzed_conversation.content[f].type = "str"
           /\ analyzed_conversation.content[f].value[1] \in valid
        THEN analyzed_conversation.content[f]
        ELSE PyStr(<<"unknown">>)

\* C32: analyze_conversation never raises: when the LLM call fails or the
\* response is malformed it returns a dict with status 'error', stage
\* 'unknown' and empty objections and needs; on success every list field
\* that is not a list is [] and a stage or interest_level outside its
\* enumeration is 'unknown'
C32_AsStated ==
    /\ analyzed_conversation.status # "raised"
    /\ analyzed_conversation.status = "returned" =>
           IF analyzed_conversation.cause # None
           THEN /\ analyzed_conversation.value.status = "error"
                /\ analyzed_conversation.value.stage = PyStr(<<"unknown">>)
                /\ analyzed_conversation.value.objections = PyList(<<>>)
                /\ analyzed_conversation.value.needs = PyList(<<>>)
           ELSE /\ analyzed_conversation.value.status = "success"
                /\ \A f \in {"objections", "needs", "topics", "next_actions"} :
                       ListKept(f)
                /\ EnumKept("stage", valid_stages)
                /\ EnumKept("interest_level", valid_interest_levels)

====
